---- MODULE Spec2Model ----
(***************************************************************************)
(* Billedhenter: the catalog matching engine of common_functions.py and    *)
(* the selection / export bookkeeping of pages/1_Billedhenter.py.          *)
(*                                                                         *)
(* Python strings that the code parses (webkodes, filenames, widget keys)  *)
(* are sequences of one-character strings, so that strip, lower, split and *)
(* the f-string key formats are computed character by character.  Image    *)
(* URLs are never parsed by the code and are plain strings ("" is the      *)
(* empty URL).                                                             *)
(***************************************************************************)
EXTENDS Integers, Sequences, FiniteSets, TLC

VARIABLES
    filename_in,         \* extract_product_code: the filename argument
    product_code_out,    \* extract_product_code: the returned product code (None before the call)
    webkodes,            \* the list of input codes of the last run or search (None: none parsed)
    media_files,         \* the catalog, in the order the last query returned it
    query_status,        \* outcome of the last catalog query
    search_results,      \* st.session_state.search_results
    logged_in,           \* st.session_state.logged_in
    api_authenticated,   \* st.session_state.api_authenticated
    jwt_token,           \* st.session_state.jwt_token
    selected_images,     \* st.session_state.selected_images
    image_keys_registry, \* st.session_state.image_keys_registry
    text_input,          \* the text area's content
    uploaded_file,       \* the file uploader's content
    project_code_input,  \* the project code field's content
    rename_alternatives, \* the rename checkbox
    view,                \* what the last run put on the page
    zip_request          \* the list the last run handed to create_download_zip, if any

codeVars == <<filename_in, product_code_out>>
matchVars == <<webkodes, media_files, query_status, search_results>>
pageVars == <<logged_in, api_authenticated, jwt_token, selected_images,
              image_keys_registry, text_input, uploaded_file,
              project_code_input, rename_alternatives, view, zip_request>>
vars == <<filename_in, product_code_out, webkodes, media_files, query_status,
          search_results, logged_in, api_authenticated, jwt_token,
          selected_images, image_keys_registry, text_input, uploaded_file,
          project_code_input, rename_alternatives, view, zip_request>>

-----------------------------------------------------------------------------
(* Python str primitives *)

\* Python None: a one-element sequence that is no str
None == <<"None">>

Whitespace == {" ", "\t", "\n", "\r"}

UpperChars == <<"A","B","C","D","E","F","G","H","I","J","K","L","M",
                "N","O","P","Q","R","S","T","U","V","W","X","Y","Z">>
LowerChars == <<"a","b","c","d","e","f","g","h","i","j","k","l","m",
                "n","o","p","q","r","s","t","u","v","w","x","y","z">>

\* code points 32..95 and 97..126 in order
AsciiLow == <<" ","!","\"","#","$","%","&","'","(",")","*","+",",","-",".","/",
              "0","1","2","3","4","5","6","7","8","9",":",";","<","=",">","?",
              "@","A","B","C","D","E","F","G","H","I","J","K","L","M","N","O",
              "P","Q","R","S","T","U","V","W","X","Y","Z","[","\\","]","^","_">>
AsciiHigh == <<"a","b","c","d","e","f","g","h","i","j","k","l","m","n","o",
               "p","q","r","s","t","u","v","w","x","y","z","{","|","}","~">>

Chars ==
    {AsciiLow[i] : i \in 1..Len(AsciiLow)}
        \cup {AsciiHigh[i] : i \in 1..Len(AsciiHigh)} \cup Whitespace

\* ord(c)
ord[c \in Chars] ==
    IF c = "\t" THEN 9
    ELSE IF c = "\n" THEN 10
    ELSE IF c = "\r" THEN 13
    ELSE IF \E i \in 1..Len(AsciiLow) : AsciiLow[i] = c
    THEN 31 + (CHOOSE i \in 1..Len(AsciiLow) : AsciiLow[i] = c)
    ELSE 96 + (CHOOSE i \in 1..Len(AsciiHigh) : AsciiHigh[i] = c)

lower_char[c \in Chars] ==
    IF \E i \in 1..26 : UpperChars[i] = c
    THEN LowerChars[CHOOSE i \in 1..26 : UpperChars[i] = c]
    ELSE c

lower(s) == [i \in 1..Len(s) |-> lower_char[s[i]]]

RECURSIVE lstrip(_)
lstrip(s) == IF s # <<>> /\ Head(s) \in Whitespace THEN lstrip(Tail(s)) ELSE s

RECURSIVE rstrip(_)
rstrip(s) ==
    IF s # <<>> /\ s[Len(s)] \in Whitespace
    THEN rstrip(SubSeq(s, 1, Len(s) - 1))
    ELSE s

strip(s) == rstrip(lstrip(s))

\* c in s, for a one-character c
contains(s, c) == \E i \in 1..Len(s) : s[i] = c

\* s.split(sep) for a one-character separator
RECURSIVE split(_, _)
split(s, sep) ==
    IF contains(s, sep)
    THEN LET i == CHOOSE k \in 1..Len(s) :
                      s[k] = sep /\ \A j \in 1..(k - 1) : s[j] # sep
         IN  <<SubSeq(s, 1, i - 1)>> \o split(SubSeq(s, i + 1, Len(s)), sep)
    ELSE <<s>>

\* sep.join(parts)
RECURSIVE join(_, _)
join(parts, sep) ==
    IF parts = <<>> THEN <<>>
    ELSE IF Len(parts) = 1 THEN parts[1]
    ELSE parts[1] \o <<sep>> \o join(Tail(parts), sep)

\* a < b on str: code-point lexicographic order
RECURSIVE str_lt_from(_, _, _)
str_lt_from(a, b, i) ==
    IF i > Len(b) THEN FALSE
    ELSE IF i > Len(a) THEN TRUE
    ELSE IF a[i] = b[i] THEN str_lt_from(a, b, i + 1)
    ELSE ord[a[i]] < ord[b[i]]

str_lt(a, b) == str_lt_from(a, b, 1)

-----------------------------------------------------------------------------
(* Python for loops *)

\* the one element of a one-element set; Only({e(x) : x \in {v}}) is e(v)
\* with v computed once
Only(S) == CHOOSE x \in S : TRUE

\* for i in range(lo, hi + 1): st = body(st, i).  The range is run in two
\* halves, one after the other, which bounds the depth of the evaluation.
RECURSIVE for_range(_, _, _, _)
for_range(body(_, _), lo, hi, st) ==
    IF lo > hi THEN st
    ELSE IF lo = hi THEN body(st, lo)
    ELSE Only({ for_range(body, ((lo + hi) \div 2) + 1, hi, first_half) :
                first_half \in {for_range(body, lo, (lo + hi) \div 2, st)} })

-----------------------------------------------------------------------------
(* extract_product_code, the nested function of search_images_for_codes *)

\* the delimiter rule with the '(' branch left out
extract_product_code_underscore_only(filename) ==
    IF contains(filename, "_")
    THEN lower(strip(split(filename, "_")[1]))
    ELSE lower(strip(filename))

extract_product_code(filename) ==
    IF contains(filename, "_")
    THEN lower(strip(split(filename, "_")[1]))
    ELSE IF contains(filename, "(")
    THEN lower(strip(split(filename, "(")[1]))
    ELSE lower(strip(filename))

-----------------------------------------------------------------------------
(* ICRTImageDownloader.search_images_for_codes *)

\* a dict is a function on its key set; {} is the function on no keys
EmptyDict == <<>>

\* d[k] = v: the left operand of @@ wins on the key both have
dict_set(d, k, v) == (k :> v) @@ d

dict_get(d, k, default) == IF k \in DOMAIN d THEN d[k] ELSE default

\* the session default search_results = {}
NoResults == [is_empty |-> TRUE]

EmptyResults == [found |-> EmptyDict, missing |-> <<>>, suggestions |-> EmptyDict]

\* {code.strip().lower() for code in webkodes}
webkode_set(codes) == {lower(strip(codes[i])) : i \in 1..Len(codes)}

\* the "Find original webkode" loop: the first input code whose normalized
\* form is the product code, stripped; None when there is none
find_original_webkode(codes, product_code) ==
    IF \E i \in 1..Len(codes) : lower(strip(codes[i])) = product_code
    THEN LET i == CHOOSE k \in 1..Len(codes) :
                      /\ lower(strip(codes[k])) = product_code
                      /\ \A j \in 1..(k - 1) : lower(strip(codes[j])) # product_code
         IN  strip(codes[i])
    ELSE None

\* results['found'][original_webkode] = [entry], dropping what was recorded
record_found_overwrite(found, original_webkode, entry) ==
    dict_set(found, original_webkode, <<entry>>)

\* setdefault to [] and append
record_found(found, original_webkode, entry) ==
    dict_set(found, original_webkode,
             Append(dict_get(found, original_webkode, <<>>), entry))

\* the body of the loop over media_files, for one media entry
match_one(codes, media, found) ==
    LET filename == media.filename
        image_url == media.image
    IN  IF filename # <<>> /\ image_url # ""
        THEN LET product_code == extract_product_code(filename)
             IN  IF product_code \in webkode_set(codes)
                 THEN LET original_webkode ==
                              find_original_webkode(codes, product_code)
                      IN  IF original_webkode # None /\ original_webkode # <<>>
                          THEN record_found(found, original_webkode,
                                   [url |-> image_url,
                                    filename |-> filename,
                                    webkode |-> original_webkode])
                          ELSE found
                 ELSE found
        ELSE found

\* the loop over media_files
match_media(codes, media_list, found) ==
    LET body(acc, i) == match_one(codes, media_list[i], acc)
    IN  for_range(body, 1, Len(media_list), found)

\* the variant test with the bases compared as written
is_variant_case_sensitive(product_code, clean_webkode) ==
    /\ contains(product_code, "-")
    /\ Len(split(product_code, "-")) >= 3
    /\ LET file_parts == split(product_code, "-")
           parts == split(clean_webkode, "-")
       IN  /\ join(SubSeq(file_parts, 1, Len(file_parts) - 1), "-")
                = join(SubSeq(parts, 1, Len(parts) - 1), "-")
           /\ lower(product_code) # lower(clean_webkode)

\* the variant test without the "different variant" condition
is_variant_same_base(product_code, clean_webkode) ==
    /\ contains(product_code, "-")
    /\ Len(split(product_code, "-")) >= 3
    /\ LET file_parts == split(product_code, "-")
           parts == split(clean_webkode, "-")
       IN  lower(join(SubSeq(file_parts, 1, Len(file_parts) - 1), "-"))
             = lower(join(SubSeq(parts, 1, Len(parts) - 1), "-"))

\* same base product but different variant
is_variant(product_code, clean_webkode) ==
    /\ contains(product_code, "-")
    /\ Len(split(product_code, "-")) >= 3
    /\ LET file_parts == split(product_code, "-")
           parts == split(clean_webkode, "-")
           file_base == join(SubSeq(file_parts, 1, Len(file_parts) - 1), "-")
           base_product == join(SubSeq(parts, 1, Len(parts) - 1), "-")
       IN  /\ lower(file_base) = lower(base_product)
           /\ lower(product_code) # lower(clean_webkode)

\* f"Alternative variant ({product_code}) found for missing variant ({clean_webkode})",
\* kept as the format's literal pieces and the two interpolated strings
suggestion_reason(product_code, clean_webkode) ==
    <<"Alternative variant (", product_code,
      ") found for missing variant (", clean_webkode, ")">>

\* the loop over ALL media files for one missing code
variant_suggestions(clean_webkode, media_list) ==
    LET body(acc, i) ==
            LET filename == media_list[i].filename
                product_code == extract_product_code(filename)
            IN  IF filename # <<>> /\ is_variant(product_code, clean_webkode)
                THEN Append(acc,
                         [url |-> media_list[i].image,
                          filename |-> filename,
                          webkode |-> product_code,
                          original_webkode |-> clean_webkode,
                          suggestion_reason |->
                              suggestion_reason(product_code, clean_webkode)])
                ELSE acc
    IN  for_range(body, 1, Len(media_list), <<>>)

\* the suggestion part of the loop body, for a code just reported missing
add_suggestions(results, clean_webkode, media_list) ==
    IF contains(clean_webkode, "-") /\ Len(split(clean_webkode, "-")) >= 3
    THEN LET found_variants ==
                 variant_suggestions(clean_webkode, media_list)
         IN  IF found_variants # <<>>
             THEN [results EXCEPT !.suggestions =
                      dict_set(results.suggestions, clean_webkode, found_variants)]
             ELSE results
    ELSE results

\* the membership test against found made on the code as given, not stripped
is_missing_unstripped(webkode, found) == webkode \notin DOMAIN found

\* clean_webkode not in results['found']
is_missing(webkode, found) == strip(webkode) \notin DOMAIN found

\* the loop body with the variant search run for every code
missing_one_suggest_always(results, webkode, media_list) ==
    LET clean_webkode == strip(webkode)
        listed == IF is_missing(webkode, results.found)
                  THEN [results EXCEPT !.missing = Append(@, clean_webkode)]
                  ELSE results
    IN  add_suggestions(listed, clean_webkode, media_list)

\* the body of the loop over webkodes, for one input code
missing_one(results, webkode, media_list) ==
    LET clean_webkode == strip(webkode)
    IN  IF is_missing(webkode, results.found)
        THEN add_suggestions(
                 [results EXCEPT !.missing = Append(@, clean_webkode)],
                 clean_webkode, media_list)
        ELSE results

\* the loop over webkodes
identify_missing(codes, media_list, results) ==
    LET body(acc, i) == missing_one(acc, codes[i], media_list)
    IN  for_range(body, 1, Len(codes), results)

\* The catalog query's outcome: "ok" delivers media_list; "jwt_expired" and
\* "error" are the two branches of `not success`; "graphql_errors" is a 200
\* reply with an 'errors' member; "no_project" is a reply without project data.
QueryFailures == {"jwt_expired", "error", "graphql_errors", "no_project"}

\* a failed query reports every input code as missing
search_images_for_codes_all_missing(codes, reply, media_list) ==
    identify_missing(codes, IF reply \in QueryFailures THEN <<>> ELSE media_list,
        [EmptyResults EXCEPT
            !.found = IF reply \in QueryFailures THEN EmptyDict
                      ELSE match_media(codes, media_list, EmptyDict)])

search_images_for_codes(codes, reply, media_list) ==
    IF reply \in QueryFailures
    THEN EmptyResults
    ELSE identify_missing(codes, media_list,
             [EmptyResults EXCEPT
                 !.found = match_media(codes, media_list, EmptyDict)])

-----------------------------------------------------------------------------
(* pages/1_Billedhenter.py, show(): the key registry *)

Digits == <<"0","1","2","3","4","5","6","7","8","9">>

\* str(n) for n >= 0, as in an f-string
RECURSIVE str_int(_)
str_int(n) ==
    IF n < 10 THEN <<Digits[n + 1]>>
    ELSE str_int(n \div 10) \o <<Digits[(n % 10) + 1]>>

\* sorted(): the stable order of the indexes of a list of str keys.  The
\* index i is placed after the last already placed index whose key is not
\* greater than keys[i]; that place is between lo and hi and is found by
\* halving.
RECURSIVE insert_pos(_, _, _, _, _)
insert_pos(keys, placed, i, lo, hi) ==
    IF lo >= hi THEN lo
    ELSE IF str_lt(keys[i], keys[placed[(lo + hi + 1) \div 2]])
    THEN insert_pos(keys, placed, i, lo, ((lo + hi + 1) \div 2) - 1)
    ELSE insert_pos(keys, placed, i, (lo + hi + 1) \div 2, hi)

sort_order(keys) ==
    LET body(placed, i) ==
            Only({ SubSeq(placed, 1, k) \o <<i>>
                       \o SubSeq(placed, k + 1, Len(placed)) :
                   k \in {insert_pos(keys, placed, i, 0, Len(placed))} })
    IN  for_range(body, 1, Len(keys), <<>>)

\* sorted(images, key=lambda x: x['filename'])
sorted_by_filename(images) ==
    LET order == sort_order([i \in 1..Len(images) |-> images[i].filename])
    IN  [i \in 1..Len(images) |-> images[order[i]]]

\* sorted(list of str)
sorted_strs(strs) ==
    LET order == sort_order(strs)
    IN  [i \in 1..Len(strs) |-> strs[order[i]]]

RECURSIVE set_to_seq(_)
set_to_seq(S) ==
    IF S = {} THEN <<>>
    ELSE LET x == CHOOSE y \in S : TRUE IN <<x>> \o set_to_seq(S \ {x})

\* the webkodes of sorted(results['found'].items()): the keys are distinct,
\* so the pairs are ordered by key alone
sorted_found_webkodes(found) == sorted_strs(set_to_seq(DOMAIN found))

\* the key registry is a dict in insertion order: a list of entries with
\* distinct keys; assigning to a key that is present replaces its entry in place
registry_set(registry, entry) ==
    IF \E i \in 1..Len(registry) : registry[i].key = entry.key
    THEN [i \in 1..Len(registry) |->
             IF registry[i].key = entry.key THEN entry ELSE registry[i]]
    ELSE Append(registry, entry)

registry_keys(registry) == {registry[i].key : i \in 1..Len(registry)}

registry_entry(registry, key) ==
    registry[CHOOSE i \in 1..Len(registry) : registry[i].key = key]

\* duplicate_number None
NoNumber == 0

\* f"img_{global_image_counter}_{webkode}_{image['filename']}"
image_key(global_image_counter, webkode, filename) ==
    <<"i","m","g","_">> \o str_int(global_image_counter) \o <<"_">>
        \o webkode \o <<"_">> \o filename

\* f"suggestion_{webkode}_{idx}_{suggestion['filename']}"
suggestion_key(webkode, idx, filename) ==
    <<"s","u","g","g","e","s","t","i","o","n","_">> \o webkode \o <<"_">>
        \o str_int(idx) \o <<"_">> \o filename

\* a histogram that counts every filename once
count_filenames_all_once(items) ==
    [filename \in {items[i].filename : i \in 1..Len(items)} |-> 1]

\* the filename -> count histogram of one owner's sorted list
count_filenames(items) ==
    LET body(counts, i) ==
            dict_set(counts, items[i].filename,
                     dict_get(counts, items[i].filename, 0) + 1)
    IN  for_range(body, 1, Len(items), EmptyDict)

\* "Register images with consistent keys": the loop over one found webkode's
\* sorted images; state is the registry, the global counter and the running
\* occurrence counters
register_images(webkode, sorted_images, filename_counts, st0) ==
    LET body(st, i) ==
            LET image == sorted_images[i]
                filename == image.filename
                occurrence == dict_get(st.filename_occurrence, filename, 0) + 1
                counter == st.global_image_counter + 1
            IN  [registry |->
                     registry_set(st.registry,
                         [key |-> image_key(counter, webkode, filename),
                          type |-> "found",
                          webkode |-> webkode,
                          image |-> image,
                          is_duplicate |-> filename_counts[filename] > 1,
                          duplicate_number |->
                              IF filename_counts[filename] > 1
                              THEN occurrence ELSE NoNumber]),
                 global_image_counter |-> counter,
                 filename_occurrence |->
                     dict_set(st.filename_occurrence, filename, occurrence)]
    IN  for_range(body, 1, Len(sorted_images), st0)

\* "First pass: register all found images"
register_found(found, sorted_webkodes, st0) ==
    LET body(st, w) ==
            Only({ register_images(sorted_webkodes[w], sorted_images,
                       count_filenames(sorted_images),
                       [st EXCEPT !.filename_occurrence = EmptyDict]) :
                   sorted_images \in
                       {sorted_by_filename(found[sorted_webkodes[w]])} })
    IN  for_range(body, 1, Len(sorted_webkodes), st0)

\* "Register suggestions with consistent keys": idx is enumerate's index
register_suggestion_list(webkode, sorted_suggestions, filename_counts, st0) ==
    LET body(st, i) ==
            LET suggestion == sorted_suggestions[i]
                filename == suggestion.filename
                occurrence == dict_get(st.filename_occurrence, filename, 0) + 1
            IN  [st EXCEPT
                   !.registry =
                     registry_set(st.registry,
                         [key |-> suggestion_key(webkode, i - 1, filename),
                          type |-> "suggestion",
                          webkode |-> webkode,
                          image |-> suggestion,
                          is_duplicate |-> filename_counts[filename] > 1,
                          duplicate_number |->
                              IF filename_counts[filename] > 1
                              THEN occurrence ELSE NoNumber]),
                   !.filename_occurrence =
                     dict_set(st.filename_occurrence, filename, occurrence)]
    IN  for_range(body, 1, Len(sorted_suggestions), st0)

\* "Second pass: register all suggestions"
register_suggestions(suggestions, sorted_missing, st0) ==
    LET body(st, m) ==
            IF sorted_missing[m] \in DOMAIN suggestions
            THEN Only({ register_suggestion_list(sorted_missing[m],
                            sorted_suggestions,
                            count_filenames(sorted_suggestions),
                            [st EXCEPT !.filename_occurrence = EmptyDict]) :
                        sorted_suggestions \in
                            {sorted_by_filename(suggestions[sorted_missing[m]])} })
            ELSE st
    IN  for_range(body, 1, Len(sorted_missing), st0)

\* global_image_counter continued from the registry of the previous run
first_counter_continued(previous_registry) ==
    Cardinality({i \in 1..Len(previous_registry) :
                    previous_registry[i].type = "found"})

\* global_image_counter = 0 at the start of every run
first_counter(previous_registry) == 0

\* keys_registry = {} ... st.session_state.image_keys_registry = keys_registry
build_keys_registry(results, previous_registry) ==
    LET st0 == [registry |-> <<>>,
                global_image_counter |-> first_counter(previous_registry),
                filename_occurrence |-> EmptyDict]
        st1 == register_found(results.found,
                   sorted_found_webkodes(results.found), st0)
        st2 == register_suggestions(results.suggestions,
                   sorted_strs(results.missing), st1)
    IN  st2.registry

-----------------------------------------------------------------------------
(* common_functions.py: parse_text_input and extract_project_code *)

is_digit(c) == \E d \in 1..10 : Digits[d] = c
is_upper(c) == \E u \in 1..26 : UpperChars[u] = c

\* the separators of re.split(r'[\s,]+', ...)
Separators == Whitespace \cup {","}

\* the non-empty pieces of text between runs of separators
RECURSIVE split_codes(_, _, _, _)
split_codes(text, i, current, done) ==
    IF i > Len(text)
    THEN IF current = <<>> THEN done ELSE Append(done, current)
    ELSE IF text[i] \in Separators
    THEN split_codes(text, i + 1, <<>>,
                     IF current = <<>> THEN done ELSE Append(done, current))
    ELSE split_codes(text, i + 1, Append(current, text[i]), done)

\* re.match(r'^[A-Z]{0,2}\d{5}-\d{4}-\d{2}$', code)
matches_webkode_pattern(code) ==
    \E k \in 0..2 :
        /\ Len(code) = k + 13
        /\ \A i \in 1..k : is_upper(code[i])
        /\ \A i \in (k + 1)..(k + 5) : is_digit(code[i])
        /\ code[k + 6] = "-"
        /\ \A i \in (k + 7)..(k + 10) : is_digit(code[i])
        /\ code[k + 11] = "-"
        /\ \A i \in (k + 12)..(k + 13) : is_digit(code[i])

\* the strict pattern, or the lenient check: a digit and a dash
looks_like_webkode(code) ==
    \/ matches_webkode_pattern(code)
    \/ (\E i \in 1..Len(code) : is_digit(code[i])) /\ contains(code, "-")

RECURSIVE filter_valid(_)
filter_valid(codes) ==
    IF codes = <<>> THEN <<>>
    ELSE (IF looks_like_webkode(Head(codes)) THEN <<Head(codes)>> ELSE <<>>)
             \o filter_valid(Tail(codes))

\* parse_text_input: the list of valid webkodes, or None with an error
parse_text_input(text) ==
    IF strip(text) = <<>> THEN None
    ELSE LET valid == filter_valid(split_codes(strip(text), 1, <<>>, <<>>))
         IN  IF valid = <<>> THEN None ELSE valid

\* An uploaded workbook, as far as parse_excel_file reads it: whether it
\* has a sheet "Priser", whether one of the first 6 rows of that sheet has a
\* cell "Webkode" (in one of the accepted spellings), and the cells of that
\* column below the header row.  A cell is a string or NaN.
NaN == <<"NaN">>

\* nothing is uploaded
NoFile == [uploaded |-> FALSE]

\* any cell that is not NaN is taken as a webkode
is_webkode_cell_not_nan(value) == value # NaN

\* pd.notna(value) and str(value).strip()
is_webkode_cell(value) == value # NaN /\ strip(value) # <<>>

\* the loop over the rows below the header
column_webkodes(column) ==
    LET body(codes, i) ==
            IF is_webkode_cell(column[i])
            THEN Append(codes, strip(column[i]))
            ELSE codes
    IN  for_range(body, 1, Len(column), <<>>)

\* parse_excel_file: the list of webkodes, or None with an error
parse_excel_file(file) ==
    IF ~file.priser THEN None
    ELSE IF ~file.header THEN None
    ELSE LET found_webkodes == column_webkodes(file.column)
         IN  IF found_webkodes = <<>> THEN None ELSE found_webkodes

\* re.match(r'^([A-Z]{2}\d{5}|\d{5})', webkode)
extract_project_code(webkode) ==
    IF /\ Len(webkode) >= 7
       /\ is_upper(webkode[1]) /\ is_upper(webkode[2])
       /\ \A i \in 3..7 : is_digit(webkode[i])
    THEN SubSeq(webkode, 1, 7)
    ELSE IF Len(webkode) >= 5 /\ \A i \in 1..5 : is_digit(webkode[i])
    THEN SubSeq(webkode, 1, 5)
    ELSE <<>>

-----------------------------------------------------------------------------
(* pages/1_Billedhenter.py, show(): display, selection and export *)

MAX_IMAGES_PER_ZIP == 300

\* the keys of the registry entries of one kind under one webkode, in
\* registry order
keys_of(registry, type, webkode) ==
    LET made(entry) == entry.type = type /\ entry.webkode = webkode
        entries == SelectSeq(registry, made)
    IN  [i \in 1..Len(entries) |-> entries[i].key]

found_checkboxes(registry, sorted_webkodes) ==
    LET body(calls, w) == calls \o keys_of(registry, "found", sorted_webkodes[w])
    IN  for_range(body, 1, Len(sorted_webkodes), <<>>)

suggestion_checkboxes(registry, suggestions, sorted_missing) ==
    LET body(calls, m) ==
            IF sorted_missing[m] \in DOMAIN suggestions
            THEN calls \o keys_of(registry, "suggestion", sorted_missing[m])
            ELSE calls
    IN  for_range(body, 1, Len(sorted_missing), <<>>)

\* the widget keys of the st.checkbox calls of one run, in call order
checkbox_calls(results, registry) ==
    found_checkboxes(registry, sorted_found_webkodes(results.found))
        \o suggestion_checkboxes(registry, results.suggestions,
                                 sorted_strs(results.missing))

\* the position of the first st.checkbox call that repeats a widget key of
\* the same run (the call raises and ends the run), or 0
first_repeated_call(calls) ==
    IF Cardinality({calls[i] : i \in 1..Len(calls)}) = Len(calls) THEN 0
    ELSE CHOOSE i \in 1..Len(calls) :
             /\ \E j \in 1..(i - 1) : calls[j] = calls[i]
             /\ \A k \in 1..(i - 1) : \A j \in 1..(k - 1) : calls[j] # calls[k]

\* a box that shows what the user last did to it, whatever value it is given
checkbox_value_ignored(key, selected, clicked) == key = clicked

\* st.checkbox(..., key=key, value=key in selected_images): the box shows
\* the value it is given unless the user has just clicked it
checkbox_value(key, selected, clicked) ==
    IF key = clicked THEN key \notin selected ELSE key \in selected

\* "Update selection state", for the checkboxes of one run in call order
update_selection(calls, selected0, clicked) ==
    LET body(selected, i) ==
            IF checkbox_value(calls[i], selected, clicked)
            THEN selected \cup {calls[i]}
            ELSE selected \ {calls[i]}
    IN  for_range(body, 1, Len(calls), selected0)

\* the batch selection buttons
select_all(registry, selected) == registry_keys(registry)

select_exact(registry, selected) ==
    {registry[i].key : i \in {j \in 1..Len(registry) : registry[j].type = "found"}}

\* every copy of a duplicated filename is deselected, the first included
deselect_every_copy(registry, selected) ==
    selected \ {registry[i].key :
                   i \in {j \in 1..Len(registry) : registry[j].is_duplicate}}

deselect_duplicates(registry, selected) ==
    selected \ {registry[i].key :
                   i \in {j \in 1..Len(registry) :
                             /\ registry[j].is_duplicate
                             /\ registry[j].duplicate_number > 1}}

deselect_all(registry, selected) == {}

batch_select(button, registry, selected) ==
    IF button = "select_all" THEN select_all(registry, selected)
    ELSE IF button = "select_exact" THEN select_exact(registry, selected)
    ELSE IF button = "deselect_duplicates"
    THEN deselect_duplicates(registry, selected)
    ELSE deselect_all(registry, selected)

BatchButtons == {"select_all", "select_exact", "deselect_duplicates", "deselect_all"}

\* the download button is offered one image too late
download_allowed_off_by_one(selected_count) ==
    selected_count <= MAX_IMAGES_PER_ZIP + 1

\* selected_count <= MAX_IMAGES_PER_ZIP
download_allowed(selected_count) == selected_count <= MAX_IMAGES_PER_ZIP

\* selected_count > MAX_IMAGES_PER_ZIP
too_many_selected(selected_count) == selected_count > MAX_IMAGES_PER_ZIP

NothingToDownload ==
    [shown |-> FALSE, selected_count |-> 0, too_many |-> FALSE,
     excess_count |-> 0, download_button |-> FALSE]

\* "Download section"
download_section(selected_count) ==
    IF selected_count > 0
    THEN [shown |-> TRUE,
          selected_count |-> selected_count,
          too_many |-> too_many_selected(selected_count),
          excess_count |-> IF too_many_selected(selected_count)
                           THEN selected_count - MAX_IMAGES_PER_ZIP ELSE 0,
          download_button |-> download_allowed(selected_count)]
    ELSE NothingToDownload

\* the rename keeps the file's own variant segment
suggestion_filename_variant_kept(webkode, original_filename, rename) ==
    IF rename /\ contains(original_filename, "_")
    THEN split(original_filename, "_")[1] \o <<"_">>
             \o split(original_filename, "_")[2]
    ELSE webkode \o <<"_">> \o original_filename
             \o <<"_","s","u","g","g","e","s","t","e","d">>

\* the planned filename without the mark of a suggestion
suggestion_filename_unmarked(webkode, original_filename, rename) ==
    webkode \o <<"_">> \o original_filename

\* the rename option is ignored
suggestion_filename_never_renamed(webkode, original_filename, rename) ==
    webkode \o <<"_">> \o original_filename
        \o <<"_","s","u","g","g","e","s","t","e","d">>

\* the planned filename of a selected suggestion
suggestion_filename(webkode, original_filename, rename) ==
    LET suggested == webkode \o <<"_">> \o original_filename
                        \o <<"_","s","u","g","g","e","s","t","e","d">>
        renamed == webkode \o <<"_">> \o original_filename
                        \o <<"_","r","e","n","a","m","e","d">>
    IN  IF rename /\ contains(webkode, "-") /\ Len(split(webkode, "-")) >= 3
        THEN LET parts == split(webkode, "-")
                 desired_variant == parts[Len(parts)]
             IN  IF contains(original_filename, "_")
                 THEN LET base_part == split(original_filename, "_")[1]
                          suffix_part == split(original_filename, "_")[2]
                          base_parts == split(base_part, "-")
                      IN  IF contains(base_part, "-") /\ Len(base_parts) >= 3
                          THEN join([base_parts EXCEPT
                                        ![Len(base_parts)] = desired_variant], "-")
                                   \o <<"_">> \o suffix_part
                          ELSE renamed
                 ELSE renamed
        ELSE suggested

\* the suffix numbered by the occurrences before the previous one
final_filename_counted_late(planned, duplicate_counter) ==
    IF planned \in DOMAIN duplicate_counter
    THEN planned \o <<"_","k","o","p","i">>
             \o str_int(duplicate_counter[planned])
    ELSE planned

\* the duplicate_counter step: the final filename of a planned filename and
\* the updated counter
final_filename(planned, duplicate_counter) ==
    IF planned \in DOMAIN duplicate_counter
    THEN planned \o <<"_","k","o","p","i">>
             \o str_int(duplicate_counter[planned] + 1)
    ELSE planned

count_planned(planned, duplicate_counter) ==
    IF planned \in DOMAIN duplicate_counter
    THEN dict_set(duplicate_counter, planned, duplicate_counter[planned] + 1)
    ELSE dict_set(duplicate_counter, planned, 0)

\* the loop over st.session_state.selected_images that builds the list
\* handed to create_download_zip; order is the set's iteration order
build_selected_images(order, registry, rename) ==
    LET body(st, i) ==
            IF order[i] \notin registry_keys(registry) THEN st
            ELSE LET data == registry_entry(registry, order[i])
                     planned == IF data.type = "found" THEN data.image.filename
                                ELSE suggestion_filename(data.webkode,
                                         data.image.filename, rename)
                     entry == IF data.type = "found"
                              THEN [data.image EXCEPT
                                       !.filename = final_filename(planned,
                                                        st.duplicate_counter)]
                              ELSE [url |-> data.image.url,
                                    filename |-> final_filename(planned,
                                                     st.duplicate_counter),
                                    webkode |-> data.webkode]
                 IN  [duplicate_counter |->
                          count_planned(planned, st.duplicate_counter),
                      selected_images |-> Append(st.selected_images, entry)]
    IN  for_range(body, 1, Len(order),
                  [duplicate_counter |-> EmptyDict, selected_images |-> <<>>]
                 ).selected_images

-----------------------------------------------------------------------------
(* common_functions.py: create_download_zip *)

\* what requests.get does for one image: a response with status 200, a
\* response with another status, or an exception
FetchOutcomes == {"200", "other_status", "exception"}

\* an archive in which the newest member is put in front
create_download_zip_newest_first(images, fetched) ==
    LET body(st, i) ==
            IF fetched[i] = "200"
            THEN [st EXCEPT !.zip_file =
                     <<[name |-> images[i].filename \o <<".","j","p","g">>,
                        content |-> images[i].url]>> \o @]
            ELSE IF fetched[i] = "exception"
            THEN [st EXCEPT !.warnings = Append(@, images[i].filename)]
            ELSE st
    IN  for_range(body, 1, Len(images),
                  [zip_file |-> <<>>, warnings |-> <<>>])

\* the archive and the warnings shown, for the list images when
\* the fetch of its i-th image ends as fetched[i].  A member is the name it
\* is written under and the url whose content it holds.
create_download_zip(images, fetched) ==
    LET body(st, i) ==
            IF fetched[i] = "200"
            THEN [st EXCEPT !.zip_file =
                     Append(@, [name |-> images[i].filename
                                             \o <<".","j","p","g">>,
                                content |-> images[i].url])]
            ELSE IF fetched[i] = "exception"
            THEN [st EXCEPT !.warnings = Append(@, images[i].filename)]
            ELSE st
    IN  for_range(body, 1, Len(images),
                  [zip_file |-> <<>>, warnings |-> <<>>])

-----------------------------------------------------------------------------
(* pages/1_Billedhenter.py: one script run *)

JwtToken == <<"j","w","t">>

NoEvent ==
    [button |-> "none", clicked |-> None, reply |-> "ok", listing |-> <<>>,
     order |-> <<>>, fetched |-> <<>>]

LoginView ==
    [screen |-> "login", search_button |-> FALSE, error |-> "",
     checkboxes |-> <<>>, controls |-> FALSE, download |-> NothingToDownload]

CredentialsView == [LoginView EXCEPT !.screen = "credentials"]

MainView == [LoginView EXCEPT !.screen = "main"]

\* the reply search_images_for_codes sees: without a token the query is
\* refused before it is sent
effective_reply(token, reply) == IF token = None THEN "error" ELSE reply

\* a search that leaves the session's API state as it is on an expired JWT
after_search_token_kept(ss, codes, ev) ==
    LET reply == effective_reply(ss.jwt_token, ev.reply)
        results == search_images_for_codes(codes, reply, ev.listing)
    IN  [ss EXCEPT
            !.search_results = results,
            !.image_keys_registry = <<>>]

\* the "Find billedfiler" branch: the search, the session writes of the
\* expired-JWT branch, and the two session writes that follow the call
after_search(ss, codes, ev) ==
    LET reply == effective_reply(ss.jwt_token, ev.reply)
        results == search_images_for_codes(codes, reply, ev.listing)
    IN  [ss EXCEPT
            !.api_authenticated = IF reply = "jwt_expired" THEN FALSE ELSE @,
            !.jwt_token = IF reply = "jwt_expired" THEN None ELSE @,
            !.search_results = results,
            !.image_keys_registry = <<>>]

\* no list was handed to create_download_zip
NoRequest ==
    [requested |-> FALSE, selected_images |-> <<>>, responses |-> <<>>,
     zip_file |-> <<>>, warnings |-> <<>>]

\* the call of create_download_zip with the list built from the selection
download_zip(images, fetched) ==
    Only({ [requested |-> TRUE,
            selected_images |-> images,
            responses |-> SubSeq(fetched, 1, Len(images)),
            zip_file |-> made.zip_file,
            warnings |-> made.warnings] :
           made \in {create_download_zip(images, fetched)} })

run_result(ss, shown, request, codes, rerun) ==
    [ss |-> ss, view |-> shown, zip_request |-> request, webkodes |-> codes,
     rerun |-> rerun]

\* the text tab: the parsed webkodes, or None
parsed_webkodes(text) ==
    IF text # <<>> THEN parse_text_input(text) ELSE None

\* the results section once the registry is rebuilt: the checkboxes, the
\* batch buttons and the download section
results_section(ss, w, ev, codes, registry, calls, repeated) ==
    LET rendered == IF repeated = 0 THEN calls
                    ELSE SubSeq(calls, 1, repeated - 1)
        selected == update_selection(rendered, ss.selected_images, ev.clicked)
        section == download_section(Cardinality(selected))
        drawn == [MainView EXCEPT !.search_button = TRUE, !.checkboxes = rendered]
    IN  IF repeated # 0
        THEN run_result(
                 [ss EXCEPT !.image_keys_registry = registry,
                            !.selected_images = selected],
                 [drawn EXCEPT !.error = "duplicate_widget_key"],
                 NoRequest, codes, FALSE)
        ELSE IF ev.button \in BatchButtons
        THEN run_result(
                 [ss EXCEPT !.image_keys_registry = registry,
                            !.selected_images =
                                batch_select(ev.button, registry, selected)],
                 drawn, NoRequest, codes, TRUE)
        ELSE run_result(
                 [ss EXCEPT !.image_keys_registry = registry,
                            !.selected_images = selected],
                 [drawn EXCEPT !.controls = TRUE, !.download = section],
                 IF ev.button = "download" /\ section.download_button
                 THEN Only({ download_zip(images, ev.fetched) :
                             images \in {build_selected_images(ev.order,
                                             registry, w.rename_alternatives)} })
                 ELSE NoRequest,
                 codes, FALSE)

\* the display of the stored results
display_results(ss, w, ev, codes) ==
    IF ss.search_results = NoResults
    THEN run_result(ss, [MainView EXCEPT !.search_button = TRUE], NoRequest, codes, FALSE)
    ELSE IF ss.search_results.found = EmptyDict /\ ss.search_results.missing = <<>>
    THEN run_result(ss, [MainView EXCEPT !.search_button = TRUE], NoRequest, codes, FALSE)
    ELSE Only({ Only({ results_section(ss, w, ev, codes, registry, calls,
                                       first_repeated_call(calls)) :
                       calls \in {checkbox_calls(ss.search_results, registry)} }) :
                registry \in {build_keys_registry(ss.search_results,
                                                  ss.image_keys_registry)} })

\* the search button without the test of the project code
show_webkodes_unchecked(ss, w, ev, codes) ==
    IF codes = None
    THEN run_result(ss, MainView, NoRequest, None, FALSE)
    ELSE display_results(IF ev.button = "search"
                         THEN after_search(ss, codes, ev) ELSE ss,
                         w, ev, codes)

\* show() from the project code field on, given the parsed webkodes
show_webkodes(ss, w, ev, codes) ==
    IF codes = None
    THEN run_result(ss,
             [MainView EXCEPT !.error = IF w.text_input # <<>> THEN "parse" ELSE ""],
             NoRequest, None, FALSE)
    ELSE IF ev.button = "search" /\ w.project_code_input = <<>>
    THEN run_result(ss,
             [MainView EXCEPT !.search_button = TRUE, !.error = "no_project_code"],
             NoRequest, codes, FALSE)
    ELSE Only({ display_results(session, w, ev, codes) :
                session \in {IF ev.button = "search"
                             THEN after_search(ss, codes, ev) ELSE ss} })

\* one pass of show(), from the authentication check to the download
\* section.  ss is the session state, w the widget values, ev the widget
\* event that started the run; rerun tells that the pass ended in st.rerun()
show_once(ss, w, ev) ==
    IF ~ss.api_authenticated
    THEN run_result(ss, CredentialsView, NoRequest, None, FALSE)
    ELSE IF ev.button = "refresh_api"
    THEN run_result([ss EXCEPT !.api_authenticated = FALSE, !.jwt_token = None],
                    MainView, NoRequest, None, TRUE)
    ELSE Only({ show_webkodes(ss, w, ev, codes) :
                codes \in {parsed_webkodes(w.text_input)} })

\* the run an event starts; st.rerun() starts the run again, without an event
RECURSIVE show(_, _, _)
show(ss, w, ev) ==
    Only({ IF pass.rerun THEN show(pass.ss, w, NoEvent) ELSE pass :
           pass \in {show_once(ss, w, ev)} })

\* the project code field after the text area changed: the field shows the
\* code detected from the first webkode when it is first drawn or when the
\* detected code changes, and keeps what the user typed otherwise
project_code_field(old_text, new_text, current) ==
    LET old_codes == parsed_webkodes(old_text)
        new_codes == parsed_webkodes(new_text)
    IN  IF new_codes = None THEN <<>>
        ELSE IF old_codes = None THEN extract_project_code(new_codes[1])
        ELSE IF extract_project_code(old_codes[1]) = extract_project_code(new_codes[1])
        THEN current
        ELSE extract_project_code(new_codes[1])

-----------------------------------------------------------------------------
(* The page as a state machine: one action per user event and the run it starts *)

Session ==
    [api_authenticated |-> api_authenticated,
     jwt_token |-> jwt_token,
     search_results |-> search_results,
     selected_images |-> selected_images,
     image_keys_registry |-> image_keys_registry]

Widgets ==
    [text_input |-> text_input,
     project_code_input |-> project_code_input,
     rename_alternatives |-> rename_alternatives]

\* the session and the page after the run show(ss, w, ev).  A widget the
\* run did not draw loses its value.
Ran(ss, w, ev) ==
    \E out \in {show(ss, w, ev)} :
        /\ api_authenticated' = out.ss.api_authenticated
        /\ jwt_token' = out.ss.jwt_token
        /\ search_results' = out.ss.search_results
        /\ selected_images' = out.ss.selected_images
        /\ image_keys_registry' = out.ss.image_keys_registry
        /\ webkodes' = out.webkodes
        /\ view' = out.view
        /\ zip_request' = out.zip_request
        /\ text_input' = IF out.view.screen = "main" THEN w.text_input ELSE <<>>
        /\ project_code_input' =
               IF out.view.search_button THEN w.project_code_input ELSE <<>>
        /\ rename_alternatives' = (out.view.controls /\ w.rename_alternatives)
        /\ UNCHANGED uploaded_file

\* init_session_state and the widgets before any user event
PageIdle ==
    /\ logged_in = FALSE
    /\ api_authenticated = FALSE
    /\ jwt_token = None
    /\ selected_images = {}
    /\ image_keys_registry = <<>>
    /\ text_input = <<>>
    /\ uploaded_file = NoFile
    /\ project_code_input = <<>>
    /\ rename_alternatives = FALSE
    /\ view = LoginView
    /\ zip_request = NoRequest

PageInit ==
    /\ filename_in = <<>>
    /\ product_code_out = None
    /\ webkodes = None
    /\ media_files = <<>>
    /\ query_status = "none"
    /\ search_results = NoResults
    /\ PageIdle

\* login_screen: the right username and password
Login ==
    /\ view.screen = "login"
    /\ logged_in' = TRUE
    /\ Ran(Session, Widgets, NoEvent)
    /\ UNCHANGED <<codeVars, media_files, query_status>>

\* api_credentials_screen: authenticate_api succeeds
Authenticate ==
    /\ view.screen = "credentials"
    /\ Ran([Session EXCEPT !.jwt_token = JwtToken, !.api_authenticated = TRUE],
           Widgets, NoEvent)
    /\ UNCHANGED <<codeVars, media_files, query_status, logged_in>>

\* the sidebar button "Genindlæs API"
RefreshApi ==
    /\ view.screen = "main"
    /\ Ran(Session, Widgets, [NoEvent EXCEPT !.button = "refresh_api"])
    /\ UNCHANGED <<codeVars, media_files, query_status, logged_in>>

\* the user replaces the content of the text area
EditText(texts) ==
    \E new_text \in texts :
        /\ view.screen = "main"
        /\ new_text # text_input
        /\ Ran(Session, [Widgets EXCEPT
                   !.text_input = new_text,
                   !.project_code_input =
                       project_code_field(text_input, new_text,
                                          project_code_input)],
               NoEvent)
        /\ UNCHANGED <<codeVars, media_files, query_status, logged_in>>

\* the user types a project code
EditProjectCode(project_codes) ==
    \E code \in project_codes :
        /\ view.search_button
        /\ code # project_code_input
        /\ Ran(Session, [Widgets EXCEPT !.project_code_input = code], NoEvent)
        /\ UNCHANGED <<codeVars, media_files, query_status, logged_in>>

\* the button "Find billedfiler"; the catalog service answers with reply
\* and, when it answers, lists its entries in some order
ClickSearch(catalogs, replies) ==
    \E catalog \in catalogs, reply \in replies :
        LET searched == api_authenticated /\ project_code_input # <<>>
        IN  /\ view.search_button
            /\ Ran(Session, Widgets, [NoEvent EXCEPT !.button = "search",
                                            !.reply = reply,
                                            !.listing = catalog])
            /\ media_files' = IF ~searched THEN media_files
                              ELSE IF effective_reply(jwt_token, reply) = "ok"
                              THEN catalog ELSE <<>>
            /\ query_status' = IF searched THEN effective_reply(jwt_token, reply)
                               ELSE query_status
            /\ UNCHANGED <<codeVars, logged_in>>

MaxClickable == 2

\* the checkboxes the user clicks: the first and the last MaxClickable drawn
Clickable(checkboxes) ==
    {checkboxes[i] : i \in {j \in 1..Len(checkboxes) :
                               j <= MaxClickable \/ j > Len(checkboxes) - MaxClickable}}

\* the first and the last checkbox drawn
FirstAndLast(checkboxes) ==
    {checkboxes[i] : i \in {j \in 1..Len(checkboxes) : j = 1 \/ j = Len(checkboxes)}}

\* the user clicks one image checkbox, one of those in clickable
ClickCheckbox(clickable) ==
    \E key \in clickable :
        /\ Ran(Session, Widgets, [NoEvent EXCEPT !.clicked = key])
        /\ UNCHANGED <<codeVars, media_files, query_status, logged_in>>

\* the user clicks the rename checkbox
ClickRename ==
    /\ view.controls
    /\ Ran(Session, [Widgets EXCEPT !.rename_alternatives = ~rename_alternatives], NoEvent)
    /\ UNCHANGED <<codeVars, media_files, query_status, logged_in>>

\* one batch selection button
ClickBatchButton(button) ==
    /\ view.controls
    /\ Ran(Session, Widgets, [NoEvent EXCEPT !.button = button])
    /\ UNCHANGED <<codeVars, media_files, query_status, logged_in>>

\* one of the four batch selection buttons
ClickBatch == \E button \in BatchButtons : ClickBatchButton(button)

MaxOrdered == 3

\* the orders in which a loop over the set may visit it: every order for a
\* set of at most MaxOrdered keys; for a larger set the order of the
\* registry, with the keys the registry lacks after it, and its reverse
IterationOrders(S, registry) ==
    LET listed(entry) == entry.key \in S
        entries == SelectSeq(registry, listed)
        one == [i \in 1..Len(entries) |-> entries[i].key]
                   \o set_to_seq(S \ registry_keys(registry))
        n == Len(one)
    IN  IF n <= MaxOrdered
        THEN {[i \in 1..n |-> one[f[i]]] : f \in Permutations(1..n)}
        ELSE {one, [i \in 1..n |-> one[n + 1 - i]]}

\* how the fetches of n images may end: the first in one of the ways
\* first_fetch, the others with status 200
Fetches(n, first_fetch) ==
    {[i \in 1..n |-> IF i = 1 THEN outcome ELSE "200"] : outcome \in first_fetch}

\* the button "Pak og download ZIP fil"
ClickDownload(first_fetch) ==
    \E order \in IterationOrders(selected_images, image_keys_registry) :
        \E fetched \in Fetches(Len(order), first_fetch) :
            /\ view.download.download_button
            /\ Ran(Session, Widgets, [NoEvent EXCEPT !.button = "download",
                                            !.order = order,
                                            !.fetched = fetched])
            /\ UNCHANGED <<codeVars, media_files, query_status, logged_in>>

\* what the user pastes: one code, two codes, and text without a webkode
PageTexts ==
    { <<"A","-","1","-","5">>,
      <<"A","-","1","-","0",","," ","A","-","1","-","5">>,
      <<"x">> }

\* what the catalog service answers
PageReplies == {"ok", "jwt_expired", "error"}

PageProjectCodes == { <<>>, <<"1","2","3","4","5">> }

PageEntry0 == [filename |-> <<"A","-","1","-","0","_","1">>, image |-> "u1"]
PageEntry5 == [filename |-> <<"a","-","1","-","5","_","2">>, image |-> "u2"]
PageEntry0Again == [filename |-> <<"A","-","1","-","0","_","1">>, image |-> "u4"]

\* what the catalog service lists: two products, or one file listed twice
PageCatalogs ==
    { <<PageEntry0, PageEntry5>>, <<PageEntry0, PageEntry0Again>> }

Next ==
    \/ Login
    \/ Authenticate
    \/ RefreshApi
    \/ EditText(PageTexts)
    \/ EditProjectCode(PageProjectCodes)
    \/ ClickSearch(PageCatalogs, PageReplies)
    \/ ClickCheckbox(Clickable(view.checkboxes))
    \/ ClickRename
    \/ ClickBatch
    \/ ClickDownload({"200"})

Spec == PageInit /\ [][Next]_vars

\* a search at the size limit: MAX_IMAGES_PER_ZIP files of product B-1-0,
\* the last of them a second listing of the first file's name, and two files
\* of product C-2-0 that become the suggestions for the absent C-2-9
LimitText ==
    <<"B","-","1","-","0",","," ","C","-","2","-","9">>

LimitTexts == {LimitText}

LimitProjectCodes == { <<"1","2","3","4","5">> }

LimitReplies == {"ok"}

LimitEntry(i) ==
    IF i < MAX_IMAGES_PER_ZIP
    THEN [filename |-> <<"B","-","1","-","0","_">> \o str_int(i), image |-> ToString(i)]
    ELSE IF i = MAX_IMAGES_PER_ZIP
    THEN [filename |-> <<"B","-","1","-","0","_">> \o str_int(1), image |-> ToString(i)]
    ELSE [filename |-> <<"C","-","2","-","0","_">> \o str_int(i), image |-> ToString(i)]

LimitCatalog == [i \in 1..(MAX_IMAGES_PER_ZIP + 2) |-> LimitEntry(i)]

LimitCatalogs == {LimitCatalog}

LimitNext ==
    \/ Login
    \/ Authenticate
    \/ RefreshApi
    \/ EditText(LimitTexts)
    \/ EditProjectCode(LimitProjectCodes)
    \/ ClickSearch(LimitCatalogs, LimitReplies)
    \/ ClickCheckbox(FirstAndLast(view.checkboxes))
    \/ ClickBatch
    \/ ClickDownload({"200"})

SpecLimit == PageInit /\ [][LimitNext]_vars

-----------------------------------------------------------------------------
(* Filenames given to extract_product_code *)

MaxNameLen == 4

NameChars == {"A", "b", "_", "(", " "}

RECURSIVE SeqsUpTo(_, _)
SeqsUpTo(S, n) ==
    IF n = 0 THEN {<<>>}
    ELSE LET shorter == SeqsUpTo(S, n - 1)
         IN  shorter \cup {Append(s, c) : s \in shorter, c \in S}

ExampleUnderscore ==
    <<"A","B","1","2","3","4","5","-","0","0","0","1","-","0","0","_","0","1",".","j","p","g">>
ExampleParen ==
    <<"A","B","1","2","3","4","5","-","0","0","0","1","-","0","0","(","a","l","t",")",".","j","p","g">>
ExamplePlain == <<"p","l","a","i","n","n","a","m","e",".","j","p","g">>
ExampleCode == <<"a","b","1","2","3","4","5","-","0","0","0","1","-","0","0">>

Filenames ==
    SeqsUpTo(NameChars, MaxNameLen)
        \cup {ExampleUnderscore, ExampleParen, ExamplePlain}

CodeInit ==
    /\ filename_in \in Filenames
    /\ product_code_out = None
    /\ webkodes = <<>>
    /\ media_files = <<>>
    /\ query_status = "none"
    /\ search_results = NoResults
    /\ PageIdle

ExtractProductCode ==
    /\ product_code_out = None
    /\ product_code_out' = extract_product_code(filename_in)
    /\ UNCHANGED <<filename_in, matchVars, pageVars>>

CodeNext == ExtractProductCode

SpecCode == CodeInit /\ [][CodeNext]_vars

-----------------------------------------------------------------------------
(* C4 *)

\* index of the first occurrence of c in s
FirstIndexOf(s, c) ==
    CHOOSE k \in 1..Len(s) : s[k] = c /\ \A j \in 1..(k - 1) : s[j] # c

PartBefore(s, c) == SubSeq(s, 1, FirstIndexOf(s, c) - 1)

\* r is p without its leading and trailing whitespace, in lower case
IsTrimmedLowerOf(r, p) ==
    IF \A i \in 1..Len(p) : p[i] \in Whitespace
    THEN r = <<>>
    ELSE \E i, j \in 1..Len(p) :
            /\ i <= j
            /\ p[i] \notin Whitespace
            /\ p[j] \notin Whitespace
            /\ \A k \in 1..Len(p) : (k < i \/ k > j) => p[k] \in Whitespace
            /\ Len(r) = j - i + 1
            /\ \A k \in 1..Len(r) :
                  /\ r[k] \notin {UpperChars[u] : u \in 1..26}
                  /\ \/ r[k] = p[i + k - 1]
                     \/ \E u \in 1..26 : p[i + k - 1] = UpperChars[u]
                                         /\ r[k] = LowerChars[u]

\* C4: the product code returned for a filename is the trimmed, lower-cased
\* part before the first '_' if the filename has one, otherwise the part
\* before the first '(' if it has one, otherwise the whole filename; the three
\* documented examples give ab12345-0001-00, ab12345-0001-00 and plainname.jpg.
C4_ProductCodeRule ==
    product_code_out # None =>
        /\ IsTrimmedLowerOf(product_code_out,
              IF \E i \in 1..Len(filename_in) : filename_in[i] = "_"
              THEN PartBefore(filename_in, "_")
              ELSE IF \E i \in 1..Len(filename_in) : filename_in[i] = "("
              THEN PartBefore(filename_in, "(")
              ELSE filename_in)
        /\ filename_in = ExampleUnderscore => product_code_out = ExampleCode
        /\ filename_in = ExampleParen => product_code_out = ExampleCode
        /\ filename_in = ExamplePlain => product_code_out = ExamplePlain

C4_Witness ==
    /\ filename_in = ExampleParen
    /\ product_code_out = ExampleCode

-----------------------------------------------------------------------------
(* Input codes and catalogs given to search_images_for_codes *)

MaxCodes == 2
MaxMedia == 2

CodePool ==
    { <<"A","-","1","-","0">>,
      <<" ","a","-","1","-","0">>,
      <<"A","-","1","-","9">>,
      <<"A","-","1">> }

MediaPool ==
    { [filename |-> <<"A","-","1","-","0","_","1">>, image |-> "u1"],
      [filename |-> <<"a","-","1","-","5","_","2">>, image |-> "u2"],
      [filename |-> <<"A","-","1","-","0","(","x">>, image |-> ""],
      [filename |-> <<"A","-","1","-","0","_","2">>, image |-> "u3"] }

\* the documented scenario: a catalog of AB100-0001-00_01.jpg and
\* AB100-0001-50_02.jpg, searched for AB100-0001-00 or for AB100-0001-99
ScenarioEntry00 ==
    [filename |-> <<"A","B","1","0","0","-","0","0","0","1","-","0","0","_","0","1",".","j","p","g">>, image |-> "https://img/00_01"]
ScenarioEntry50 ==
    [filename |-> <<"A","B","1","0","0","-","0","0","0","1","-","5","0","_","0","2",".","j","p","g">>, image |-> "https://img/50_02"]
ScenarioCatalog == <<ScenarioEntry00, ScenarioEntry50>>
ScenarioCode00 == <<"A","B","1","0","0","-","0","0","0","1","-","0","0">>
ScenarioCode99 == <<"A","B","1","0","0","-","0","0","0","1","-","9","9">>

CodeLists ==
    SeqsUpTo(CodePool, MaxCodes) \cup {<<ScenarioCode00>>, <<ScenarioCode99>>}

Catalogs == SeqsUpTo(MediaPool, MaxMedia) \cup {ScenarioCatalog}

\* the orders in which the catalog service may list the same entries
Reorderings(media_list) ==
    {[i \in 1..Len(media_list) |-> media_list[f[i]]] :
        f \in Permutations(1..Len(media_list))}

MatchInit ==
    /\ filename_in = <<>>
    /\ product_code_out = None
    /\ webkodes \in CodeLists
    /\ media_files \in Catalogs
    /\ query_status = "none"
    /\ search_results = NoResults
    /\ PageIdle

\* one call of search_images_for_codes whose query succeeds
SearchOk ==
    \E listing \in Reorderings(media_files) :
        /\ media_files' = listing
        /\ query_status' = "ok"
        /\ search_results' = search_images_for_codes(webkodes, "ok", listing)
        /\ UNCHANGED <<webkodes, codeVars, pageVars>>

\* one call of search_images_for_codes whose query fails
SearchFails ==
    \E reply \in QueryFailures :
        /\ query_status' = reply
        /\ search_results' = search_images_for_codes(webkodes, reply, media_files)
        /\ UNCHANGED <<webkodes, media_files, codeVars, pageVars>>

MatchNext == SearchOk \/ SearchFails

SpecMatch == MatchInit /\ [][MatchNext]_vars

-----------------------------------------------------------------------------
(* Pasted texts and uploaded workbooks, parsed and then searched for *)

MaxTextLen == 4
MaxCells == 2

TextChars == {" ", ",", "1", "-"}

\* what is pasted into the text area
ParseTexts == SeqsUpTo(TextChars, MaxTextLen) \ {<<>>}

\* the cells of a Webkode column: an empty cell, a blank cell, a code and a
\* code with blanks around it
CellPool == {NaN, <<" ">>, <<"1","-">>, <<" ","1","-"," ">>}

\* the workbooks: without the sheet, without the header, and with a column
ParseFiles ==
    { [uploaded |-> TRUE, priser |-> FALSE, header |-> FALSE, column |-> <<>>],
      [uploaded |-> TRUE, priser |-> TRUE, header |-> FALSE, column |-> <<>>] }
    \cup { [uploaded |-> TRUE, priser |-> TRUE, header |-> TRUE, column |-> column] :
             column \in SeqsUpTo(CellPool, MaxCells) }

\* a catalog with two files whose product code is empty and a file of the
\* product 1-
ParseCatalog ==
    << [filename |-> <<"_","x">>, image |-> "u1"],
       [filename |-> <<" ","(","y">>, image |-> "u2"],
       [filename |-> <<"1","-","_","a">>, image |-> "u3"] >>

\* either a text is pasted or a workbook is uploaded
ParseInit ==
    /\ filename_in = <<>>
    /\ product_code_out = None
    /\ webkodes = None
    /\ media_files = ParseCatalog
    /\ query_status = "none"
    /\ search_results = NoResults
    /\ logged_in = TRUE
    /\ api_authenticated = TRUE
    /\ jwt_token = JwtToken
    /\ selected_images = {}
    /\ image_keys_registry = <<>>
    /\ \/ text_input \in ParseTexts /\ uploaded_file = NoFile
       \/ text_input = <<>> /\ uploaded_file \in ParseFiles
    /\ project_code_input = <<"1","2","3","4","5">>
    /\ rename_alternatives = FALSE
    /\ view = MainView
    /\ zip_request = NoRequest

\* the text tab: `if text_input:` and the call of parse_text_input
ParseText ==
    /\ text_input # <<>>
    /\ webkodes = None
    /\ webkodes' = parse_text_input(text_input)
    /\ UNCHANGED <<codeVars, media_files, query_status, search_results, pageVars>>

\* the Excel tab: `if uploaded_file:` and the call of parse_excel_file
ParseExcel ==
    /\ uploaded_file # NoFile
    /\ webkodes = None
    /\ webkodes' = parse_excel_file(uploaded_file)
    /\ UNCHANGED <<codeVars, media_files, query_status, search_results, pageVars>>

\* `if webkodes:` and the search for the parsed webkodes
FindImages ==
    /\ webkodes # None
    /\ query_status = "none"
    /\ query_status' = "ok"
    /\ search_results' = search_images_for_codes(webkodes, "ok", media_files)
    /\ UNCHANGED <<codeVars, webkodes, media_files, pageVars>>

ParseNext == ParseText \/ ParseExcel \/ FindImages

SpecParse == ParseInit /\ [][ParseNext]_vars

-----------------------------------------------------------------------------
(* An export session: renamed suggestions and filenames that collide *)

\* the documented scenario's missing code and a code with three found files
ExportText ==
    <<"A","B","1","0","0","-","0","0","0","1","-","5","0",","," ","A","-","1","-","0">>

ExportTexts == {ExportText}

ExportProjectCodes == { <<>>, <<"1","2","3","4","5">> }

ExportReplies == {"ok"}

ScenarioCode50 == <<"A","B","1","0","0","-","0","0","0","1","-","5","0">>

ExportCode == <<"A","-","1","-","0">>

\* a second variant of the scenario's product, with the same suffix
ScenarioEntry20 ==
    [filename |-> <<"A","B","1","0","0","-","0","0","0","1","-","2","0","_","0","1",".","j","p","g">>, image |-> "https://img/20_01"]

\* a file listed twice, and a file whose own name ends in _kopi1
ExportEntryFirst == [filename |-> ExportCode, image |-> "https://img/a"]
ExportEntrySecond == [filename |-> ExportCode, image |-> "https://img/b"]
ExportEntryKopi ==
    [filename |-> ExportCode \o <<"_","k","o","p","i","1">>, image |-> "https://img/c"]

ExportCatalog ==
    <<ScenarioEntry00, ExportEntryKopi, ExportEntryFirst, ScenarioEntry20,
      ExportEntrySecond>>

ExportCatalogs == {ExportCatalog}

ExportNext ==
    \/ Login
    \/ Authenticate
    \/ RefreshApi
    \/ EditText(ExportTexts)
    \/ EditProjectCode(ExportProjectCodes)
    \/ ClickSearch(ExportCatalogs, ExportReplies)
    \/ ClickCheckbox(Clickable(view.checkboxes))
    \/ ClickRename
    \/ ClickBatch
    \/ ClickDownload(FetchOutcomes)

SpecExport == PageInit /\ [][ExportNext]_vars

-----------------------------------------------------------------------------
(* A second export session: a file listed three times, suggestions that      *)
(* cannot be rewritten, and a code pasted twice                              *)

\* a missing code pasted twice
PlanTextRepeated == ScenarioCode50 \o <<" ">> \o ScenarioCode50

PlanTexts == {ExportText, PlanTextRepeated}

\* three listings of the file A-1-0
PlanEntryThird == [filename |-> ExportCode, image |-> "https://img/c"]

\* variants of the scenario's product: a filename with two '_', a filename
\* without '_', and an entry listed without an image URL
PlanEntryFront ==
    [filename |-> ScenarioCode00 \o <<"_","0","1","_","f","r","o","n","t">>,
     image |-> "https://img/00_01_front"]
PlanEntryBare ==
    [filename |-> <<"A","B","1","0","0","-","0","0","0","1","-","2","0">>,
     image |-> "https://img/20"]
PlanEntryNoUrl ==
    [filename |-> <<"A","B","1","0","0","-","0","0","0","1","-","3","0","_","0","2">>,
     image |-> ""]

PlanCatalog ==
    <<PlanEntryFront, ExportEntryFirst, PlanEntryNoUrl, ExportEntrySecond,
      PlanEntryBare, PlanEntryThird>>

PlanCatalogs == {PlanCatalog}

PlanNext ==
    \/ Login
    \/ Authenticate
    \/ RefreshApi
    \/ EditText(PlanTexts)
    \/ EditProjectCode(ExportProjectCodes)
    \/ ClickSearch(PlanCatalogs, ExportReplies)
    \/ ClickCheckbox(Clickable(view.checkboxes))
    \/ ClickRename
    \/ ClickBatch
    \/ ClickDownload({"200"})

SpecPlan == PageInit /\ [][PlanNext]_vars

-----------------------------------------------------------------------------
(* C1, C2, C3, C5, C6, C7: properties of one search *)

Elements(s) == {s[i] : i \in 1..Len(s)}

StrippedCodes == {strip(webkodes[i]) : i \in 1..Len(webkodes)}

SearchReturned == query_status = "ok"

\* C1: after a successful search every stripped input code is a key of found
\* or an element of missing, never both, and found and missing hold nothing
\* but input codes.
C1_FoundMissingPartition ==
    SearchReturned =>
        /\ (DOMAIN search_results.found) \cup Elements(search_results.missing)
              = StrippedCodes
        /\ (DOMAIN search_results.found) \cap Elements(search_results.missing)
              = {}

C1_Witness ==
    /\ SearchReturned
    /\ search_results.missing # <<>>
    /\ \E i \in 1..Len(webkodes) :
          /\ webkodes[i] # strip(webkodes[i])
          /\ strip(webkodes[i]) \in DOMAIN search_results.found

\* C2: an input code is a key of found if and only if some catalog entry has
\* a product code equal to the code's trimmed, lower-cased form.
C2_FoundIffCatalogMatch ==
    SearchReturned =>
        \A c \in StrippedCodes :
            c \in DOMAIN search_results.found
                <=> \E i \in 1..Len(media_files) :
                        extract_product_code(media_files[i].filename) = lower(c)

\* the entries of two lists, counted with multiplicity, are the same
SameEntries(s, t) ==
    /\ Len(s) = Len(t)
    /\ \A e \in Elements(s) \cup Elements(t) :
          Cardinality({i \in 1..Len(s) : s[i] = e})
              = Cardinality({i \in 1..Len(t) : t[i] = e})

SameUpToListOrder(r1, r2) ==
    /\ DOMAIN r1.found = DOMAIN r2.found
    /\ \A c \in DOMAIN r1.found : SameEntries(r1.found[c], r2.found[c])
    /\ r1.missing = r2.missing
    /\ DOMAIN r1.suggestions = DOMAIN r2.suggestions
    /\ \A c \in DOMAIN r1.suggestions :
          SameEntries(r1.suggestions[c], r2.suggestions[c])

\* C3 as claimed: a search of the same codes against the same catalog entries
\* listed in any order gives identical found, missing and suggestions.
C3_IdenticalForEveryListing ==
    [][(SearchReturned /\ SearchReturned') => search_results' = search_results]_vars

\* C3 as amended: for the same codes, a search against the same catalog
\* entries listed in another order gives the same found keys, the same
\* missing list, the same suggestion keys and, per code, the same entries up
\* to their order in the list; against the same listing it gives identical
\* results.
C3_SameUpToListOrder ==
    [][(SearchReturned /\ SearchReturned') =>
          /\ SameUpToListOrder(search_results, search_results')
          /\ media_files' = media_files => search_results' = search_results]_vars

C3_Witness ==
    /\ SearchReturned
    /\ \E c \in DOMAIN search_results.found :
          /\ Len(search_results.found[c]) = 2
          /\ search_results.found[c][1] # search_results.found[c][2]

\* C5: no suggestion for a missing code c is a catalog entry whose product
\* code equals c case-insensitively, and a code with fewer than 3 hyphen
\* segments has no suggestions entry.
C5_SuggestionScope ==
    SearchReturned =>
        \A c \in DOMAIN search_results.suggestions :
            /\ Len(split(c, "-")) >= 3
            /\ \A k \in 1..Len(search_results.suggestions[c]) :
                  lower(extract_product_code(
                            search_results.suggestions[c][k].filename))
                      # lower(c)

C5_Witness ==
    /\ SearchReturned
    /\ \E c \in DOMAIN search_results.suggestions :
          \E i \in 1..Len(media_files) :
              extract_product_code(media_files[i].filename) = lower(c)
    /\ \E i \in 1..Len(search_results.missing) :
          Len(split(search_results.missing[i], "-")) < 3

\* the hyphen segments of a code, and its base product
Segments(code) == split(code, "-")
BaseProduct(code) == SubSeq(Segments(code), 1, Len(Segments(code)) - 1)

\* the catalog entry qualifies as a variant of the code c
Qualifies(entry, c) ==
    LET pc == extract_product_code(entry.filename)
    IN  /\ Len(Segments(pc)) >= 3
        /\ Len(BaseProduct(pc)) = Len(BaseProduct(c))
        /\ \A k \in 1..Len(BaseProduct(pc)) :
              lower(BaseProduct(pc)[k]) = lower(BaseProduct(c)[k])
        /\ pc # lower(c)

RECURSIVE QualifyingEntries(_, _)
QualifyingEntries(media_list, c) ==
    IF media_list = <<>> THEN <<>>
    ELSE (IF Qualifies(Head(media_list), c)
          THEN <<[filename |-> Head(media_list).filename,
                  url |-> Head(media_list).image]>>
          ELSE <<>>) \o QualifyingEntries(Tail(media_list), c)

SuggestedEntries(c) ==
    LET given == dict_get(search_results.suggestions, c, <<>>)
    IN  [k \in 1..Len(given) |->
            [filename |-> given[k].filename, url |-> given[k].url]]

\* C6: for every missing code c with at least 3 hyphen segments, the
\* suggestions for c are exactly the catalog entries that qualify as variants
\* of c, one suggestion each, in the order of the catalog; in the documented
\* scenario AB100-0001-99 gets both catalog entries.
C6_OneSuggestionPerVariant ==
    SearchReturned =>
        /\ \A i \in 1..Len(search_results.missing) :
              LET c == search_results.missing[i]
              IN  Len(Segments(c)) >= 3 =>
                      SuggestedEntries(c) = QualifyingEntries(media_files, c)
        /\ (webkodes = <<ScenarioCode99>> /\ media_files = ScenarioCatalog) =>
              /\ search_results.missing = <<ScenarioCode99>>
              /\ SuggestedEntries(ScenarioCode99)
                    = <<[filename |-> ScenarioEntry00.filename,
                         url |-> ScenarioEntry00.image],
                        [filename |-> ScenarioEntry50.filename,
                         url |-> ScenarioEntry50.image]>>

C6_Witness ==
    /\ SearchReturned
    /\ webkodes = <<ScenarioCode99>>
    /\ media_files = ScenarioCatalog
    /\ Len(search_results.suggestions[ScenarioCode99]) = 2

\* C7: every key of suggestions is an element of missing and no key of found;
\* in the documented scenario the found code AB100-0001-00 gets no suggestion.
C7_SuggestionsOnlyForMissing ==
    SearchReturned =>
        /\ DOMAIN search_results.suggestions
              \subseteq Elements(search_results.missing)
        /\ (DOMAIN search_results.suggestions)
              \cap (DOMAIN search_results.found) = {}

C7_Witness ==
    /\ SearchReturned
    /\ webkodes = <<ScenarioCode00>>
    /\ media_files = ScenarioCatalog
    /\ ScenarioCode00 \in DOMAIN search_results.found
    /\ search_results.suggestions = EmptyDict

-----------------------------------------------------------------------------
(* Claims about the key registry and the export limit *)

\* the last run reached the results section and built the registry
RegistryBuilt ==
    /\ view.screen = "main"
    /\ view.search_button
    /\ view.error # "no_project_code"
    /\ search_results # NoResults
    /\ (search_results.found # EmptyDict \/ search_results.missing # <<>>)

\* what the registry says of each key: the key and its duplicate marks
Identities(registry) ==
    {[key |-> registry[i].key,
      is_duplicate |-> registry[i].is_duplicate,
      duplicate_number |-> registry[i].duplicate_number] :
        i \in 1..Len(registry)}

\* C8: a run that builds the registry from the search results the run
\* before it built it from (a re-render, or a search that returns the same
\* results) produces the same set of keys and, for each key, the same
\* is_duplicate and duplicate_number.
C8_RegistryDeterminism ==
    [][(RegistryBuilt /\ RegistryBuilt' /\ search_results' = search_results)
          => Identities(image_keys_registry') = Identities(image_keys_registry)]_vars

\* a registry with a numbered duplicate, rebuilt by the re-renders of a
\* checkbox click and of a click on the rename checkbox
C8_Witness ==
    /\ RegistryBuilt
    /\ \E i \in 1..Len(image_keys_registry) :
           /\ image_keys_registry[i].is_duplicate
           /\ image_keys_registry[i].duplicate_number = 2
           /\ image_keys_registry[i].key \in selected_images
    /\ rename_alternatives

\* C9: the key of a found asset depends only on the asset's own role, owner
\* code, filename and duplicate ordinal: when two consecutive registries are
\* built from results that give owner code X the same list of found assets,
\* the keys of X's found assets are the same in both, whatever other owner
\* codes the results contain.
C9_KeysContentDerived ==
    [][(RegistryBuilt /\ RegistryBuilt')
          => \A X \in (DOMAIN search_results.found) \cap (DOMAIN search_results'.found) :
                 search_results.found[X] = search_results'.found[X]
                     => keys_of(image_keys_registry', "found", X)
                            = keys_of(image_keys_registry, "found", X)]_vars

\* C10: whenever the download section is drawn for more than
\* MAX_IMAGES_PER_ZIP selected keys it reports the excess as the number
\* selected minus MAX_IMAGES_PER_ZIP and offers no download button; it offers
\* the button for exactly MAX_IMAGES_PER_ZIP keys; and no list is ever handed
\* to create_download_zip from a selection of more than MAX_IMAGES_PER_ZIP.
C10_ExportLimit ==
    /\ view.download.shown =>
           /\ view.download.selected_count = Cardinality(selected_images)
           /\ Cardinality(selected_images) > MAX_IMAGES_PER_ZIP =>
                  /\ view.download.too_many
                  /\ view.download.excess_count
                         = Cardinality(selected_images) - MAX_IMAGES_PER_ZIP
                  /\ ~view.download.download_button
           /\ Cardinality(selected_images) = MAX_IMAGES_PER_ZIP =>
                  /\ ~view.download.too_many
                  /\ view.download.download_button
    /\ zip_request.requested =>
           /\ Cardinality(selected_images) <= MAX_IMAGES_PER_ZIP
           /\ Len(zip_request.selected_images) <= MAX_IMAGES_PER_ZIP

\* one key more than the limit is selected: the excess reported is 1 and
\* there is no download button
C10_Witness ==
    /\ Cardinality(selected_images) = MAX_IMAGES_PER_ZIP + 1
    /\ view.download.shown
    /\ view.download.too_many
    /\ view.download.excess_count = 1
    /\ ~view.download.download_button
    /\ zip_request = NoRequest

\* the export of exactly MAX_IMAGES_PER_ZIP selected keys
ExportAtLimit ==
    /\ Cardinality(selected_images) = MAX_IMAGES_PER_ZIP
    /\ zip_request.requested
    /\ Len(zip_request.selected_images) = MAX_IMAGES_PER_ZIP

-----------------------------------------------------------------------------
(* Claims about the list handed to create_download_zip *)

Manifest == zip_request.selected_images

\* the registry entries of the selected suggestions
SelectedSuggestions ==
    {image_keys_registry[i] :
        i \in {j \in 1..Len(image_keys_registry) :
                  /\ image_keys_registry[j].type = "suggestion"
                  /\ image_keys_registry[j].key \in selected_images}}

\* the filenames the list gives to the asset of a registry entry
ManifestNames(entry) ==
    {Manifest[i].filename :
        i \in {j \in 1..Len(Manifest) :
                  /\ Manifest[j].url = entry.image.url
                  /\ Manifest[j].webkode = entry.webkode}}

\* a planned filename as it is, or with a collision suffix
WithKopi(planned) ==
    {planned} \cup {planned \o <<"_","k","o","p","i">> \o str_int(n) :
                       n \in 1..Len(Manifest)}

\* the part of the filename between its first '_' and its second '_' (or
\* its end)
SuffixPart(filename) ==
    LET rest == SubSeq(filename, FirstIndexOf(filename, "_") + 1, Len(filename))
    IN  IF contains(rest, "_") THEN PartBefore(rest, "_") ELSE rest

\* the base of the filename with its last hyphen segment replaced by the
\* last hyphen segment of the owner code, then '_' and the suffix part
RenamedName(owner, filename) ==
    join(Append(BaseProduct(PartBefore(filename, "_")),
                Segments(owner)[Len(Segments(owner))]), "-")
        \o <<"_">> \o SuffixPart(filename)

Renamable(filename) ==
    /\ contains(filename, "_")
    /\ Len(Segments(PartBefore(filename, "_"))) >= 3

\* C11 as stated: with the rename option on, the selected suggestion
\* AB100-0001-00_01.jpg of the missing code AB100-0001-50 is handed to
\* create_download_zip under the filename AB100-0001-50_01.
C11_RenameScenario ==
    (zip_request.requested /\ rename_alternatives) =>
        \A entry \in SelectedSuggestions :
            (entry.webkode = ScenarioCode50
                /\ entry.image.filename = ScenarioEntry00.filename)
                => ManifestNames(entry)
                       = {ScenarioCode50 \o <<"_","0","1">>}

\* C11: with the rename option on, a selected suggestion whose filename has
\* a '_' and whose base part (before the first '_') has at least 3 hyphen
\* segments is planned under that base with its last hyphen segment replaced
\* by the last hyphen segment of the owner code, then '_' and the part of the
\* filename between its first and its second '_' (extension included), before
\* collision handling; for AB100-0001-50 and AB100-0001-00_01.jpg the planned
\* filename is AB100-0001-50_01.jpg.
C11_RenameRule ==
    (zip_request.requested /\ rename_alternatives) =>
        \A entry \in SelectedSuggestions :
            /\ Renamable(entry.image.filename) =>
                   /\ ManifestNames(entry) # {}
                   /\ ManifestNames(entry) \subseteq
                          WithKopi(RenamedName(entry.webkode, entry.image.filename))
            /\ (entry.webkode = ScenarioCode50
                   /\ entry.image.filename = ScenarioEntry00.filename)
                   => ManifestNames(entry) \subseteq
                          WithKopi(ScenarioCode50 \o <<"_","0","1",".","j","p","g">>)

\* the scenario's suggestion exported with the rename option on
C11_Witness ==
    /\ zip_request.requested
    /\ rename_alternatives
    /\ \E entry \in SelectedSuggestions :
           /\ entry.webkode = ScenarioCode50
           /\ entry.image.filename = ScenarioEntry00.filename
           /\ ManifestNames(entry)
                  = {ScenarioCode50 \o <<"_","0","1",".","j","p","g">>}

\* the planned filename of a suggestion that is not renamed
SuggestedName(owner, filename) ==
    owner \o <<"_">> \o filename \o <<"_","s","u","g","g","e","s","t","e","d">>

\* C12: with the rename option off, every selected suggestion is planned
\* under '{owner code}_{original filename}_suggested' (the list handed to
\* create_download_zip holds it under that name, or under that name with a
\* collision suffix); for AB100-0001-50 and AB100-0001-00_01.jpg this is
\* AB100-0001-50_AB100-0001-00_01.jpg_suggested.
C12_SuggestedName ==
    (zip_request.requested /\ ~rename_alternatives) =>
        \A entry \in SelectedSuggestions :
            /\ ManifestNames(entry) # {}
            /\ ManifestNames(entry) \subseteq
                   WithKopi(SuggestedName(entry.webkode, entry.image.filename))
            /\ (entry.webkode = ScenarioCode50
                   /\ entry.image.filename = ScenarioEntry00.filename)
                   => ManifestNames(entry) \subseteq
                          WithKopi(ScenarioCode50 \o <<"_">> \o ScenarioCode00
                                     \o <<"_","0","1",".","j","p","g",
                                          "_","s","u","g","g","e","s","t","e","d">>)

\* both suggestions of AB100-0001-50 exported with the rename option off
C12_Witness ==
    /\ zip_request.requested
    /\ ~rename_alternatives
    /\ Cardinality(SelectedSuggestions) = 2
    /\ \E entry \in SelectedSuggestions :
           /\ entry.image.filename = ScenarioEntry00.filename
           /\ ManifestNames(entry)
                  = {ScenarioCode50 \o <<"_">> \o ScenarioCode00
                        \o <<"_","0","1",".","j","p","g",
                             "_","s","u","g","g","e","s","t","e","d">>}

\* C13: the final filenames of the entries handed to create_download_zip are
\* pairwise distinct, for every selection.
C13_DistinctFilenames ==
    zip_request.requested =>
        \A i, j \in 1..Len(Manifest) :
            i # j => Manifest[i].filename # Manifest[j].filename

\* the assets of the selected keys, in the order of the registry
SelectedInRegistryOrder ==
    LET chosen(entry) == entry.key \in selected_images
        entries == SelectSeq(image_keys_registry, chosen)
    IN  [i \in 1..Len(entries) |-> entries[i].image.url]

\* C14: the list handed to create_download_zip holds the selected assets in
\* the registry's order (found owners in lexicographic order, then missing
\* owners with suggestions, each owner's assets sorted by filename).
C14_ManifestInRegistryOrder ==
    zip_request.requested =>
        [i \in 1..Len(Manifest) |-> Manifest[i].url] = SelectedInRegistryOrder

-----------------------------------------------------------------------------
(* Claims about failures *)

\* C15: when the catalog query fails (no reply or a reply other than 200, an
\* expired JWT, a reply with GraphQL errors, or a reply without the project),
\* search_images_for_codes returns empty found, empty missing and empty
\* suggestions, however many input codes it was given.
C15_FailedQueryEmptyResult ==
    query_status \in QueryFailures =>
        /\ search_results.found = EmptyDict
        /\ search_results.missing = <<>>
        /\ search_results.suggestions = EmptyDict

\* a query for two codes, one of them listed by the catalog, that finds no
\* project
C15_Witness ==
    /\ query_status = "no_project"
    /\ Len(webkodes) = MaxCodes
    /\ \E i \in 1..Len(media_files) :
           extract_product_code(media_files[i].filename) \in StrippedCodes
    /\ search_results = EmptyResults

\* the archive members that hold the content of a url
MembersOf(url) ==
    {zip_request.zip_file[k] :
        k \in {j \in 1..Len(zip_request.zip_file) :
                  zip_request.zip_file[j].content = url}}

\* C16: in create_download_zip every image whose fetch succeeds is written
\* to the archive, whatever happens to the others, and every image whose
\* fetch fails (an exception or a status other than 200) is left out of the
\* archive and reported to the user in a warning that names it.
C16_FetchFailureReported ==
    zip_request.requested =>
        \A i \in 1..Len(Manifest) :
            IF zip_request.responses[i] = "200"
            THEN \E member \in MembersOf(Manifest[i].url) :
                     member.name = Manifest[i].filename \o <<".","j","p","g">>
            ELSE /\ MembersOf(Manifest[i].url) = {}
                 /\ \E k \in 1..Len(zip_request.warnings) :
                        zip_request.warnings[k] = Manifest[i].filename

-----------------------------------------------------------------------------
(* Claims about the batch selection buttons *)

\* the keys the registry marks as copy #2 or later of a duplicated filename
LaterCopies(registry) ==
    {registry[i].key :
        i \in {j \in 1..Len(registry) :
                  /\ registry[j].is_duplicate
                  /\ registry[j].duplicate_number > 1}}

\* C17: wherever the batch buttons are drawn, the run that "Fravælg
\* dubletter" starts ends with no registry key whose duplicate_number is
\* greater than 1 in selected_images, and with every other key that was
\* selected (non-duplicates and copy #1 of each duplicate) still selected.
C17_DeselectDuplicates ==
    view.controls =>
        \A out \in {show(Session, Widgets,
                         [NoEvent EXCEPT !.button = "deselect_duplicates"])} :
            /\ out.ss.selected_images
                   \cap LaterCopies(out.ss.image_keys_registry) = {}
            /\ out.ss.selected_images
                   = selected_images \ LaterCopies(out.ss.image_keys_registry)

\* of the five keys of the export session all but copy #2 of A-1-0 are
\* selected; copy #1 of A-1-0 and the file only a batch button selects are
\* among them
C17_Witness ==
    /\ view.controls
    /\ Len(image_keys_registry) = 5
    /\ Cardinality(LaterCopies(image_keys_registry)) = 1
    /\ selected_images
           = registry_keys(image_keys_registry) \ LaterCopies(image_keys_registry)

\* C18: wherever the batch buttons are drawn, the run that "Vælg alle inkl.
\* forslag" starts, re-render included, ends with selected_images exactly
\* the set of registry keys, and a re-render with no user input leaves
\* selected_images as it is.
C18_SelectAllSurvives ==
    view.controls =>
        /\ \A out \in {show(Session, Widgets,
                            [NoEvent EXCEPT !.button = "select_all"])} :
               out.ss.selected_images = registry_keys(out.ss.image_keys_registry)
        /\ \A again \in {show(Session, Widgets, NoEvent)} :
               again.ss.selected_images = selected_images

\* all five keys of the export session are selected, which no sequence of
\* checkbox clicks of this session does, and the page was drawn again with
\* the rename checkbox ticked
C18_Witness ==
    /\ view.controls
    /\ rename_alternatives
    /\ Len(image_keys_registry) = 5
    /\ Len(view.checkboxes) = 5
    /\ selected_images = registry_keys(image_keys_registry)

-----------------------------------------------------------------------------
(* Claims about the input codes and the project code *)

\* the run started by "Find billedfiler" when the catalog would list listing
SearchRun(listing) ==
    show(Session, Widgets,
         [NoEvent EXCEPT !.button = "search", !.listing = listing])

\* C19: when the webkodes are parsed and no project code is detected from
\* the first of them, the project code field and the search button are still
\* drawn; pressing the button while the field is empty shows the error and
\* leaves the stored results and the registry as they are; and no step taken
\* while the field is empty changes the search results or queries the
\* catalog.
C19_NoSearchWithoutProjectCode ==
    [][/\ (api_authenticated /\ webkodes # None)
           => (extract_project_code(webkodes[1]) = <<>> => view.search_button)
       /\ (view.search_button /\ project_code_input = <<>>)
           => \A listing \in PageCatalogs :
                  \A out \in {SearchRun(listing)} :
                      /\ out.view.error = "no_project_code"
                      /\ out.ss.search_results = search_results
                      /\ out.ss.image_keys_registry = image_keys_registry
       /\ project_code_input = <<>>
           => UNCHANGED <<search_results, media_files, query_status>>]_vars

\* the search button was pressed with the field empty, before any search:
\* the error is shown and there are no results
C19_Witness ==
    /\ webkodes # None
    /\ extract_project_code(webkodes[1]) = <<>>
    /\ project_code_input = <<>>
    /\ view.search_button
    /\ view.error = "no_project_code"
    /\ search_results = NoResults
    /\ query_status = "none"

\* a search made with a project code typed by the user
ManualProjectCodeSearch ==
    /\ webkodes # None
    /\ extract_project_code(webkodes[1]) = <<>>
    /\ project_code_input # <<>>
    /\ query_status = "ok"
    /\ search_results # NoResults

\* the codes a search put in found: its keys and the product codes of the
\* files listed under them
FoundCodes ==
    (DOMAIN search_results.found)
        \cup UNION { {extract_product_code(search_results.found[c][i].filename) :
                         i \in 1..Len(search_results.found[c])} :
                     c \in DOMAIN search_results.found }

\* C20: no code that is empty once stripped is in the list of webkodes that
\* the text tab or the Excel tab hands on, and after a search neither found
\* nor missing holds an empty code and no file with an empty product code is
\* listed in found.
C20_BlankCodesRejected ==
    /\ webkodes # None => \A i \in 1..Len(webkodes) : strip(webkodes[i]) # <<>>
    /\ search_results # NoResults =>
           /\ <<>> \notin FoundCodes
           /\ \A i \in 1..Len(search_results.missing) :
                  search_results.missing[i] # <<>>

\* a workbook whose Webkode column has a blank cell and a code, searched in
\* a catalog that lists files with an empty product code: the code is found
C20_Witness ==
    /\ uploaded_file # NoFile
    /\ \E i \in 1..Len(uploaded_file.column) :
           /\ uploaded_file.column[i] # NaN
           /\ strip(uploaded_file.column[i]) = <<>>
    /\ webkodes # None
    /\ \E i \in 1..Len(media_files) :
           extract_product_code(media_files[i].filename) = <<>>
    /\ search_results # NoResults
    /\ search_results.found # EmptyDict

\* a pasted text that starts with a blank and a comma, parsed to one webkode
BlankPieceDropped ==
    /\ text_input = <<" ", ",", "1", "-">>
    /\ webkodes # None
    /\ webkodes = << <<"1", "-">> >>
    /\ search_results # NoResults

-----------------------------------------------------------------------------
(* Claims about the planned filenames *)

\* the registry entry the i-th entry of the list was made from
EntryOf(i) ==
    CHOOSE entry \in {image_keys_registry[k] : k \in 1..Len(image_keys_registry)} :
        /\ entry.key \in selected_images
        /\ entry.image.url = Manifest[i].url

\* the positions of the list that hold found images
FoundPositions == {i \in 1..Len(Manifest) : EntryOf(i).type = "found"}

\* the filename planned for the i-th entry, before collision handling
PlannedOf(i) ==
    IF EntryOf(i).type = "found" THEN EntryOf(i).image.filename
    ELSE suggestion_filename(EntryOf(i).webkode, EntryOf(i).image.filename,
                             rename_alternatives)

\* how many earlier entries of the list were planned under the same filename
EarlierSame(i) ==
    Cardinality({j \in 1..(i - 1) : PlannedOf(j) = PlannedOf(i)})

\* C21 as stated: a found image whose filename was planned N times earlier
\* in the list (N > 0) gets the original filename with '_copyN' appended;
\* the first occurrence keeps the original filename.
C21_CopySuffix ==
    zip_request.requested =>
        \A i \in FoundPositions :
            Manifest[i].filename =
                IF EarlierSame(i) = 0 THEN EntryOf(i).image.filename
                ELSE EntryOf(i).image.filename \o <<"_","c","o","p","y">>
                         \o str_int(EarlierSame(i))

\* C21: a found image whose filename was planned N times earlier in the
\* list (N > 0) gets the original filename with '_kopiN' appended, so
\* '_kopi1' for the second occurrence and '_kopi2' for the third; the first
\* occurrence keeps the original filename.
C21_KopiSuffix ==
    zip_request.requested =>
        \A i \in FoundPositions :
            Manifest[i].filename =
                IF EarlierSame(i) = 0 THEN EntryOf(i).image.filename
                ELSE EntryOf(i).image.filename \o <<"_","k","o","p","i">>
                         \o str_int(EarlierSame(i))

\* the three listings of A-1-0 exported together
C21_Witness ==
    /\ zip_request.requested
    /\ Cardinality(FoundPositions) = 3
    /\ \E i, j, k \in FoundPositions :
           /\ i < j /\ j < k
           /\ Manifest[i].filename = ExportCode
           /\ Manifest[j].filename = ExportCode \o <<"_","k","o","p","i","1">>
           /\ Manifest[k].filename = ExportCode \o <<"_","k","o","p","i","2">>

\* the fallback name of a suggestion that cannot be rewritten
RenamedName_fallback(owner, filename) ==
    owner \o <<"_">> \o filename \o <<"_","r","e","n","a","m","e","d">>

\* C22: with the rename option on, a selected suggestion whose filename has
\* no '_', or whose base part has no '-' or fewer than 3 hyphen segments, is
\* planned under '{owner code}_{original filename}_renamed'.
C22_RenameFallback ==
    (zip_request.requested /\ rename_alternatives) =>
        \A entry \in SelectedSuggestions :
            ~Renamable(entry.image.filename) =>
                /\ ManifestNames(entry) # {}
                /\ ManifestNames(entry) \subseteq
                       WithKopi(RenamedName_fallback(entry.webkode,
                                                     entry.image.filename))

\* the suggestion AB100-0001-20, whose filename has no '_', exported with
\* the rename option on
C22_Witness ==
    /\ zip_request.requested
    /\ rename_alternatives
    /\ \E entry \in SelectedSuggestions :
           /\ entry.image.filename = PlanEntryBare.filename
           /\ ~contains(entry.image.filename, "_")
           /\ ManifestNames(entry)
                  = {ScenarioCode50 \o <<"_">> \o PlanEntryBare.filename
                        \o <<"_","r","e","n","a","m","e","d">>}

-----------------------------------------------------------------------------
(* Claims about where the engine records a matching catalog entry *)

\* the found-list entry the engine writes for a catalog entry
FoundRecord(media, code) ==
    [url |-> media.image, filename |-> media.filename, webkode |-> code]

\* how many entries of the found list of code were written for media
TimesRecorded(media, code) ==
    IF code \in DOMAIN search_results.found
    THEN Cardinality({k \in 1..Len(search_results.found[code]) :
             /\ search_results.found[code][k].url = media.image
             /\ search_results.found[code][k].filename = media.filename})
    ELSE 0

\* the catalog positions that list the same entry as position i
ListedAs(i) == {k \in 1..Len(media_files) : media_files[k] = media_files[i]}

\* the catalog positions whose product code is a normalized input code
MatchingPositions ==
    {i \in 1..Len(media_files) :
        extract_product_code(media_files[i].filename) \in webkode_set(webkodes)}

FirstInputCode(product_code) ==
    find_original_webkode(webkodes, product_code)

RecordedOnceUnderFirst(i) ==
    LET media == media_files[i]
        first == FirstInputCode(extract_product_code(media.filename))
    IN  /\ TimesRecorded(media, first) = Cardinality(ListedAs(i))
        /\ \A k \in 1..Len(search_results.found[first]) :
              search_results.found[first][k].filename = media.filename
                  => search_results.found[first][k] = FoundRecord(media, first)
        /\ \A code \in DOMAIN search_results.found :
              code # first => TimesRecorded(media, code) = 0

\* C23: each catalog entry whose product code is a normalized input code is
\* recorded exactly once, under the first input code with that normalized
\* form, and in the found list of no other input code.
C23_RecordedOnceUnderFirst ==
    SearchReturned => \A i \in MatchingPositions : RecordedOnceUnderFirst(i)

\* the same for the entries that have a filename and an image URL
RecordedWhenComplete ==
    SearchReturned =>
        \A i \in MatchingPositions :
            (media_files[i].filename # <<>> /\ media_files[i].image # "")
                => RecordedOnceUnderFirst(i)

-----------------------------------------------------------------------------
(* Claims about the duplicate marks of the registry *)

\* the assets the search results list for the owner code of a registry entry
OwnerAssets(entry) ==
    IF entry.type = "found"
    THEN search_results.found[entry.webkode]
    ELSE search_results.suggestions[entry.webkode]

\* k: how often the entry's filename occurs among its owner's assets
Occurrences(entry) ==
    Cardinality({n \in 1..Len(OwnerAssets(entry)) :
                    OwnerAssets(entry)[n].filename = entry.image.filename})

\* the registry positions up to last with the owner and filename of entry
SameOwnerAndFilename(entry, last) ==
    {j \in 1..last :
        /\ image_keys_registry[j].type = entry.type
        /\ image_keys_registry[j].webkode = entry.webkode
        /\ image_keys_registry[j].image.filename = entry.image.filename}

\* C24: a registry entry whose filename occurs once among its owner's assets
\* has is_duplicate false and no duplicate number; when the filename occurs
\* k > 1 times the registry has k entries for it, all with is_duplicate
\* true, numbered 1..k in the order the registry was filled.
C24_DuplicateNumbering ==
    RegistryBuilt =>
        \A i \in 1..Len(image_keys_registry) :
            LET entry == image_keys_registry[i]
                k == Occurrences(entry)
            IN  /\ Cardinality(SameOwnerAndFilename(entry,
                                   Len(image_keys_registry))) = k
                /\ IF k = 1
                   THEN /\ ~entry.is_duplicate
                        /\ entry.duplicate_number = NoNumber
                   ELSE /\ entry.is_duplicate
                        /\ entry.duplicate_number
                               = Cardinality(SameOwnerAndFilename(entry, i))

\* a registry with a filename listed twice for a found code and twice among
\* the suggestions of a missing code
C24_Witness ==
    /\ RegistryBuilt
    /\ \E i, j \in 1..Len(image_keys_registry) :
           /\ image_keys_registry[i].type = "found"
           /\ image_keys_registry[i].duplicate_number = 2
           /\ image_keys_registry[j].type = "suggestion"
           /\ image_keys_registry[j].duplicate_number = 2

\* a registry with a filename that occurs once
C24_WitnessSingle ==
    /\ RegistryBuilt
    /\ \E i \in 1..Len(image_keys_registry) :
           /\ Occurrences(image_keys_registry[i]) = 1
           /\ ~image_keys_registry[i].is_duplicate

-----------------------------------------------------------------------------
(* Claims about the selection after a new search *)

\* C25: after any sequence of searches, checkbox clicks and batch
\* operations every key of selected_images is a key of the current registry,
\* so the count the download section shows is the number of assets an
\* export hands to create_download_zip.
C25_SelectionWithinRegistry ==
    /\ RegistryBuilt =>
           selected_images \subseteq registry_keys(image_keys_registry)
    /\ (view.download.shown /\ zip_request.requested) =>
           view.download.selected_count = Len(zip_request.selected_images)

\* the count shown is the number of exported assets
SelectedCountIsExported ==
    (view.download.shown /\ zip_request.requested) =>
        view.download.selected_count = Len(zip_request.selected_images)

-----------------------------------------------------------------------------
(* Claims about the order of the archive *)

\* the manifest positions whose fetch returned status 200
Fetched == {i \in 1..Len(Manifest) : zip_request.responses[i] = "200"}

\* the manifest position of the n-th successful fetch
NthFetched(n) ==
    CHOOSE i \in Fetched : Cardinality({j \in Fetched : j <= i}) = n

\* C26: the archive holds one member per successfully fetched manifest
\* entry, in manifest order, each named final filename + '.jpg'.
C26_ArchiveInManifestOrder ==
    zip_request.requested =>
        /\ Len(zip_request.zip_file) = Cardinality(Fetched)
        /\ \A n \in 1..Len(zip_request.zip_file) :
               zip_request.zip_file[n]
                   = [name |-> Manifest[NthFetched(n)].filename
                                   \o <<".","j","p","g">>,
                      content |-> Manifest[NthFetched(n)].url]

\* an export of three assets whose first fetch fails: the archive holds the
\* second and the third, in that order
C26_Witness ==
    /\ zip_request.requested
    /\ Len(Manifest) = 3
    /\ zip_request.responses[1] # "200"
    /\ Len(zip_request.zip_file) = 2
    /\ zip_request.zip_file[1].content = Manifest[2].url
    /\ zip_request.zip_file[2].content = Manifest[3].url
    /\ Manifest[2].url # Manifest[3].url

-----------------------------------------------------------------------------
(* Claims about the suffix of a renamed suggestion *)

\* everything after the first '_' of the filename
WholeRemainder(filename) ==
    SubSeq(filename, FirstIndexOf(filename, "_") + 1, Len(filename))

\* the renamed base followed by '_' and the whole remainder
RenamedKeepingRemainder(owner, filename) ==
    join(Append(BaseProduct(PartBefore(filename, "_")),
                Segments(owner)[Len(Segments(owner))]), "-")
        \o <<"_">> \o WholeRemainder(filename)

\* C27: with the rename option on, the rewritten filename of a selected
\* suggestion keeps the whole remainder of the original filename after its
\* first '_' (AB100-0001-00_01_front becomes AB100-0001-50_01_front for the
\* owner AB100-0001-50).
C27_WholeSuffixKept ==
    (zip_request.requested /\ rename_alternatives) =>
        \A entry \in SelectedSuggestions :
            Renamable(entry.image.filename) =>
                /\ ManifestNames(entry) # {}
                /\ ManifestNames(entry) \subseteq
                       WithKopi(RenamedKeepingRemainder(entry.webkode,
                                                        entry.image.filename))

\* the export of AB100-0001-00_01_front with the rename option on
FrontExported ==
    /\ zip_request.requested
    /\ rename_alternatives
    /\ \E entry \in SelectedSuggestions :
           /\ entry.image.filename = PlanEntryFront.filename
           /\ ManifestNames(entry)
                  = {ScenarioCode50 \o <<"_","0","1">>}

-----------------------------------------------------------------------------
(* Claims about the widget keys of one render pass *)

\* the st.checkbox keys of the pass that built the current registry
EmittedKeys == checkbox_calls(search_results, image_keys_registry)

\* C28: in one render pass no checkbox key is emitted more than once, also
\* when the input lists the same missing code more than once.
C28_NoCheckboxKeyTwice ==
    RegistryBuilt =>
        /\ \A i, j \in 1..Len(EmittedKeys) :
               i # j => EmittedKeys[i] # EmittedKeys[j]
        /\ view.error # "duplicate_widget_key"

\* the pass for the input 'AB100-0001-50 AB100-0001-50': the code is listed
\* twice in missing and the pass ends at the repeated key
RepeatedMissingCode ==
    /\ RegistryBuilt
    /\ webkodes = <<ScenarioCode50, ScenarioCode50>>
    /\ search_results.missing = <<ScenarioCode50, ScenarioCode50>>
    /\ view.error = "duplicate_widget_key"

-----------------------------------------------------------------------------
(* Claims about the source URLs of the export *)

\* C29: every entry of the list handed to create_download_zip, found or
\* suggested, has a non-empty url.
C29_ManifestUrlsNonEmpty ==
    zip_request.requested =>
        \A i \in 1..Len(Manifest) : Manifest[i].url # ""

\* the found entries of every export have a url
FoundUrlsNonEmpty ==
    zip_request.requested =>
        \A i \in FoundPositions : Manifest[i].url # ""

\* the export of the suggestion AB100-0001-30_02, which the catalog lists
\* without an image URL
NoUrlExported ==
    /\ zip_request.requested
    /\ \E i \in 1..Len(Manifest) :
           /\ Manifest[i].url = ""
           /\ Manifest[i].webkode = ScenarioCode50

-----------------------------------------------------------------------------
(* Claims about the API session *)

\* the run started by "Find billedfiler" when the catalog service answers
\* that the JWT has expired
ExpiredRun ==
    show(Session, Widgets,
         [NoEvent EXCEPT !.button = "search", !.reply = "jwt_expired"])

\* the step queried the catalog or stored the outcome of a search
SearchStep ==
    \/ query_status' # query_status
    \/ media_files' # media_files
    \/ search_results' # search_results

\* C30: a step queries the catalog only when logged_in and api_authenticated
\* are both true; a search that meets an expired JWT leaves api_authenticated
\* False and jwt_token None and the run after it shows the credential
\* screen; and while api_authenticated is False no step queries the catalog
\* and every run shows the credential screen, until authenticate_api
\* succeeds.
C30_QueryOnlyWhenAuthenticated ==
    [][/\ SearchStep => (logged_in /\ api_authenticated /\ jwt_token # None)
       /\ (view.search_button /\ api_authenticated /\ project_code_input # <<>>)
              => \A out \in {ExpiredRun} :
                     /\ out.ss.api_authenticated = FALSE
                     /\ out.ss.jwt_token = None
                     /\ show(out.ss, Widgets, NoEvent).view.screen
                            = "credentials"
       /\ (SearchStep /\ query_status' = "jwt_expired")
              => (~api_authenticated' /\ jwt_token' = None)
       /\ ~api_authenticated
              => /\ jwt_token = None
                 /\ UNCHANGED <<search_results, media_files, query_status>>
                 /\ (logged_in /\ ~api_authenticated')
                        => view'.screen = "credentials"]_vars

\* a search met an expired JWT and the run after it showed the credential
\* screen
C30_Witness ==
    /\ logged_in
    /\ query_status = "jwt_expired"
    /\ ~api_authenticated
    /\ jwt_token = None
    /\ view.screen = "credentials"

====
